---- MODULE Spec2Model ----
(***************************************************************************)
(* RoManTools: segmentation, validation and conversion of romanized        *)
(* Mandarin (Pinyin "py", Wade-Giles "wg").                                *)
(*                                                                         *)
(* A text is a sequence of characters; a character is a one-letter string. *)
(* Characters outside ASCII are written by name: "rsquo" is U+2019,        *)
(* "lsquo" U+2018, "modapos" U+02BC, "okina" U+02BB, "endash" U+2013,      *)
(* "emdash" U+2014, "grave" the backtick, "ecirc" e-circumflex, "ubreve"   *)
(* u-breve (capitals "Ecirc", "Ubreve"), "diaeresis" the combining         *)
(* diaeresis U+0308, "dotabove" the combining dot above U+0307, and        *)
(* "null" is the no-initial sentinel (o-slash) of the validity tables,    *)
(* "Oslash" its capital.                                                   *)
(* A letter composed with one of the two combining marks is named by the   *)
(* letter and the mark: "uuml" is u-umlaut, "Uuml" its capital, "auml"     *)
(* a-umlaut, "Idot" the capital I with dot above U+0130, "ndot" n with     *)
(* dot above.                                                              *)
(***************************************************************************)
EXTENDS Integers, Sequences, FiniteSets, TLC

VARIABLES
  split_word,      \* the sub-runs _process_split_words has still to parse
  remaining_text,  \* its loop variable: the text still to parse
  syllables,       \* the Syllable objects appended so far
  call,            \* the public operation being served, with its arguments
  result,          \* what that operation returned
  cache            \* the lru_caches: of the chunkers, of the converter, of
                   \* _process_text

vars == <<split_word, remaining_text, syllables, call, result, cache>>

----------------------------------------------------------------------------
(* constants.py *)

vowels == {"a", "e", "i", "o", "u", "uuml", "v", "ecirc", "ubreve"}

apostrophes == {"'", "rsquo", "lsquo", "modapos", "okina", "grave"}

dashes == {"-", "endash", "emdash"}

supported_contractions == {<<"s">>, <<"d">>, <<"l", "l">>}

supported_method_names == {"py", "wg"}

----------------------------------------------------------------------------
(* Python's str operations on the modelled alphabet. *)

ascii_case_pairs ==
  { <<"A", "a">>, <<"B", "b">>, <<"C", "c">>, <<"D", "d">>, <<"E", "e">>,
    <<"F", "f">>, <<"G", "g">>, <<"H", "h">>, <<"I", "i">>, <<"J", "j">>,
    <<"K", "k">>, <<"L", "l">>, <<"M", "m">>, <<"N", "n">>, <<"O", "o">>,
    <<"P", "p">>, <<"Q", "q">>, <<"R", "r">>, <<"S", "s">>, <<"T", "t">>,
    <<"U", "u">>, <<"V", "v">>, <<"W", "w">>, <<"X", "x">>, <<"Y", "y">>,
    <<"Z", "z">> }

\* the letters str.lower and str.upper map to one character: the ASCII
\* letters and the letters outside ASCII that have both cases
case_pairs ==
  ascii_case_pairs \cup
  { <<"Ecirc", "ecirc">>, <<"Ubreve", "ubreve">>, <<"Auml", "auml">>,
    <<"Euml", "euml">>, <<"Huml", "huml">>, <<"Iuml", "iuml">>,
    <<"Ouml", "ouml">>, <<"Uuml", "uuml">>, <<"Wuml", "wuml">>,
    <<"Xuml", "xuml">>, <<"Yuml", "yuml">>, <<"Adot", "adot">>,
    <<"Bdot", "bdot">>, <<"Cdot", "cdot">>, <<"Ddot", "ddot">>,
    <<"Edot", "edot">>, <<"Fdot", "fdot">>, <<"Gdot", "gdot">>,
    <<"Hdot", "hdot">>, <<"Mdot", "mdot">>, <<"Ndot", "ndot">>,
    <<"Odot", "odot">>, <<"Pdot", "pdot">>, <<"Rdot", "rdot">>,
    <<"Sdot", "sdot">>, <<"Tdot", "tdot">>, <<"Wdot", "wdot">>,
    <<"Xdot", "xdot">>, <<"Ydot", "ydot">>, <<"Zdot", "zdot">>,
    <<"Oslash", "null">> }

ascii_letters == {p[1] : p \in ascii_case_pairs} \cup {p[2] : p \in ascii_case_pairs}

\* U+0130 is upper case and has no one-character lower case
upper_letters == {p[1] : p \in case_pairs} \cup {"Idot"}

\* U+1E97 (t with diaeresis) is lower case and has no one-character upper
\* case
lower_letters == {p[2] : p \in case_pairs} \cup {"tuml"}

\* str.lower() of one character: "Idot" lower-cases to i followed by the
\* combining dot above
char_lower(c) ==
  IF c = "Idot" THEN <<"i", "dotabove">>
  ELSE IF c \in upper_letters
       THEN <<(CHOOSE p \in case_pairs : p[1] = c)[2]>>
       ELSE <<c>>

\* str.upper() of one character: "tuml" upper-cases to T followed by the
\* combining diaeresis
char_upper(c) ==
  IF c = "tuml" THEN <<"T", "diaeresis">>
  ELSE IF c \in lower_letters
       THEN <<(CHOOSE p \in case_pairs : p[2] = c)[1]>>
       ELSE <<c>>

RECURSIVE str_lower(_)
str_lower(s) ==
  IF s = <<>> THEN <<>> ELSE char_lower(s[1]) \o str_lower(Tail(s))

RECURSIVE str_upper(_)
str_upper(s) ==
  IF s = <<>> THEN <<>> ELSE char_upper(s[1]) \o str_upper(Tail(s))

\* str.capitalize(): the first character in title case, which on these
\* characters is its upper case, and the rest in lower case
str_capitalize(s) ==
  IF s = <<>> THEN <<>> ELSE char_upper(s[1]) \o str_lower(Tail(s))

\* str.isupper(): some cased character, and no lower-case one.
str_isupper(s) ==
  /\ \E k \in 1..Len(s) : s[k] \in upper_letters
  /\ \A k \in 1..Len(s) : s[k] \notin lower_letters

Min(a, b) == IF a < b THEN a ELSE b

\* text[:n]
Take(s, n) == SubSeq(s, 1, Min(n, Len(s)))

\* text[n:]
Drop(s, n) == SubSeq(s, Min(n, Len(s)) + 1, Len(s))

\* text[a:b] with Python's reading of a negative start
Slice(s, a, b) ==
  LET start == IF a < 0 THEN (IF a + Len(s) > 0 THEN a + Len(s) ELSE 0)
               ELSE Min(a, Len(s))
      stop  == Min(b, Len(s))
  IN  IF start < stop THEN SubSeq(s, start + 1, stop) ELSE <<>>

startswith(s, prefix) ==
  Len(prefix) <= Len(s) /\ SubSeq(s, 1, Len(prefix)) = prefix

RECURSIVE Concat(_)
Concat(ss) == IF ss = <<>> THEN <<>> ELSE Head(ss) \o Concat(Tail(ss))

----------------------------------------------------------------------------
(* data/pyDF.csv, data/wgDF.csv, data/stopwords.txt and                    *)
(* data/conversion_mapping.csv, as data_loader.py returns them: the rows   *)
(* and columns of the tables whose spellings use the modelled letters.     *)

py_init_list ==
  {
    <<"null">>, <<"n">>, <<"g">>, <<"h">>, <<"c">>, <<"c", "h">>,
    <<"l">>, <<"p">>, <<"k">>, <<"r">> }

py_fin_list ==
  {
    <<"a">>, <<"e">>, <<"a", "i">>, <<"e", "i">>, <<"a", "n">>, <<"e", "n">>,
    <<"a", "n", "g">>, <<"e", "n", "g">>, <<"e", "r">>, <<"i">>, <<"i", "e">>, <<"i", "a", "n">>,
    <<"i", "n">>, <<"i", "a", "n", "g">>, <<"i", "n", "g">>, <<"i", "a">> }

py_ar ==
    ({<<"null">>} \X
      {<<"a">>, <<"e">>, <<"a", "i">>, <<"e", "i">>, <<"a", "n">>, <<"e", "n">>, <<"a", "n", "g">>, <<"e", "n", "g">>, <<"e", "r">>}) \cup
    ({<<"n">>} \X
      {<<"a">>, <<"e">>, <<"a", "i">>, <<"e", "i">>, <<"a", "n">>, <<"e", "n">>, <<"a", "n", "g">>, <<"e", "n", "g">>, <<"i">>, <<"i", "e">>, <<"i", "a", "n">>, <<"i", "n">>, <<"i", "a", "n", "g">>, <<"i", "n", "g">>}) \cup
    ({<<"g">>} \X
      {<<"a">>, <<"e">>, <<"a", "i">>, <<"e", "i">>, <<"a", "n">>, <<"e", "n">>, <<"a", "n", "g">>, <<"e", "n", "g">>}) \cup
    ({<<"h">>} \X
      {<<"a">>, <<"e">>, <<"a", "i">>, <<"e", "i">>, <<"a", "n">>, <<"e", "n">>, <<"a", "n", "g">>, <<"e", "n", "g">>}) \cup
    ({<<"c">>} \X
      {<<"a">>, <<"e">>, <<"a", "i">>, <<"a", "n">>, <<"e", "n">>, <<"a", "n", "g">>, <<"e", "n", "g">>, <<"i">>}) \cup
    ({<<"c", "h">>} \X
      {<<"a">>, <<"e">>, <<"a", "i">>, <<"a", "n">>, <<"e", "n">>, <<"a", "n", "g">>, <<"e", "n", "g">>, <<"i">>}) \cup
    ({<<"l">>} \X
      {<<"a">>, <<"e">>, <<"a", "i">>, <<"e", "i">>, <<"a", "n">>, <<"a", "n", "g">>, <<"e", "n", "g">>, <<"i">>, <<"i", "a">>, <<"i", "e">>, <<"i", "a", "n">>, <<"i", "n">>, <<"i", "a", "n", "g">>, <<"i", "n", "g">>}) \cup
    ({<<"p">>} \X
      {<<"a">>, <<"a", "i">>, <<"e", "i">>, <<"a", "n">>, <<"e", "n">>, <<"a", "n", "g">>, <<"e", "n", "g">>, <<"i">>, <<"i", "e">>, <<"i", "a", "n">>, <<"i", "n">>, <<"i", "n", "g">>}) \cup
    ({<<"k">>} \X
      {<<"a">>, <<"e">>, <<"a", "i">>, <<"a", "n">>, <<"e", "n">>, <<"a", "n", "g">>, <<"e", "n", "g">>}) \cup
    ({<<"r">>} \X
      {<<"e">>, <<"a", "n">>, <<"e", "n">>, <<"a", "n", "g">>, <<"e", "n", "g">>, <<"i">>})

wg_init_list ==
  {
    <<"null">>, <<"n">>, <<"h">>, <<"c", "h">>, <<"c", "h", "'">>, <<"l">>,
    <<"p">>, <<"p", "'">>, <<"k">>, <<"k", "'">> }

wg_fin_list ==
  {
    <<"a">>, <<"a", "i">>, <<"a", "n">>, <<"a", "n", "g">>, <<"e", "n">>, <<"e", "r", "h">>,
    <<"e", "i">>, <<"e", "n", "g">>, <<"i">>, <<"i", "e", "h">>, <<"i", "e", "n">>, <<"i", "n">>,
    <<"i", "a", "n", "g">>, <<"i", "n", "g">>, <<"i", "a">>, <<"i", "h">> }

wg_ar ==
    ({<<"null">>} \X
      {<<"a">>, <<"a", "i">>, <<"a", "n">>, <<"a", "n", "g">>, <<"e", "n">>, <<"e", "r", "h">>}) \cup
    ({<<"n">>} \X
      {<<"a">>, <<"a", "i">>, <<"a", "n">>, <<"a", "n", "g">>, <<"e", "i">>, <<"e", "n">>, <<"e", "n", "g">>, <<"i">>, <<"i", "e", "h">>, <<"i", "e", "n">>, <<"i", "n">>, <<"i", "a", "n", "g">>, <<"i", "n", "g">>}) \cup
    ({<<"h">>} \X
      {<<"a">>, <<"a", "i">>, <<"a", "n">>, <<"a", "n", "g">>, <<"e", "i">>, <<"e", "n">>, <<"e", "n", "g">>}) \cup
    ({<<"c", "h">>} \X
      {<<"a">>, <<"a", "i">>, <<"a", "n">>, <<"a", "n", "g">>, <<"e", "n">>, <<"e", "n", "g">>, <<"i">>, <<"i", "a">>, <<"i", "a", "n", "g">>, <<"i", "e", "h">>, <<"i", "e", "n">>, <<"i", "h">>, <<"i", "n">>, <<"i", "n", "g">>}) \cup
    ({<<"c", "h", "'">>} \X
      {<<"a">>, <<"a", "i">>, <<"a", "n">>, <<"a", "n", "g">>, <<"e", "n">>, <<"e", "n", "g">>, <<"i">>, <<"i", "a">>, <<"i", "a", "n", "g">>, <<"i", "e", "h">>, <<"i", "e", "n">>, <<"i", "h">>, <<"i", "n">>, <<"i", "n", "g">>}) \cup
    ({<<"l">>} \X
      {<<"a">>, <<"a", "i">>, <<"a", "n">>, <<"a", "n", "g">>, <<"e", "i">>, <<"e", "n", "g">>, <<"i">>, <<"i", "a">>, <<"i", "a", "n", "g">>, <<"i", "e", "h">>, <<"i", "e", "n">>, <<"i", "n">>, <<"i", "n", "g">>}) \cup
    ({<<"p">>} \X
      {<<"a">>, <<"a", "i">>, <<"a", "n">>, <<"a", "n", "g">>, <<"e", "i">>, <<"e", "n">>, <<"e", "n", "g">>, <<"i">>, <<"i", "e", "h">>, <<"i", "e", "n">>, <<"i", "n">>, <<"i", "n", "g">>}) \cup
    ({<<"p", "'">>} \X
      {<<"a">>, <<"a", "i">>, <<"a", "n">>, <<"a", "n", "g">>, <<"e", "i">>, <<"e", "n">>, <<"e", "n", "g">>, <<"i">>, <<"i", "e", "h">>, <<"i", "e", "n">>, <<"i", "n">>, <<"i", "n", "g">>}) \cup
    ({<<"k">>} \X
      {<<"a">>, <<"a", "i">>, <<"a", "n">>, <<"a", "n", "g">>, <<"e", "i">>, <<"e", "n">>, <<"e", "n", "g">>}) \cup
    ({<<"k", "'">>} \X
      {<<"a">>, <<"a", "i">>, <<"a", "n">>, <<"a", "n", "g">>, <<"e", "n">>, <<"e", "n", "g">>})

stopword_list ==
  {
    <<"a">>, <<"a", "n">>, <<"h", "e">>, <<"h", "e", "r", "e">>,
    <<"c", "a", "n">>, <<"h", "e", "'", "l", "l">>, <<"t", "h", "e">>, <<"e", "a", "c", "h">> }

conversion_mapping ==
  <<
    [py |-> <<"a">>, wg |-> <<"a">>, meta |-> ""],
    [py |-> <<"a", "n">>, wg |-> <<"a", "n">>, meta |-> ""],
    [py |-> <<"a", "n", "g">>, wg |-> <<"a", "n", "g">>, meta |-> ""],
    [py |-> <<"a", "i">>, wg |-> <<"a", "i">>, meta |-> ""],
    [py |-> <<"e", "n">>, wg |-> <<"e", "n">>, meta |-> ""],
    [py |-> <<"e", "i">>, wg |-> <<>>, meta |-> "rare"],
    [py |-> <<"e", "r">>, wg |-> <<"e", "r", "h">>, meta |-> ""],
    [py |-> <<"n", "i">>, wg |-> <<"n", "i">>, meta |-> ""],
    [py |-> <<"l", "i">>, wg |-> <<"l", "i">>, meta |-> ""],
    [py |-> <<"l", "i", "n">>, wg |-> <<"l", "i", "n">>, meta |-> ""],
    [py |-> <<"h", "a", "n">>, wg |-> <<"h", "a", "n">>, meta |-> ""],
    [py |-> <<"h", "e">>, wg |-> <<"h", "o">>, meta |-> ""],
    [py |-> <<"c", "h", "a", "n">>, wg |-> <<"c", "h", "'", "a", "n">>, meta |-> ""],
    [py |-> <<"c", "h", "a", "n", "g">>, wg |-> <<"c", "h", "'", "a", "n", "g">>, meta |-> ""],
    [py |-> <<"g", "a", "n">>, wg |-> <<"k", "a", "n">>, meta |-> ""],
    [py |-> <<"g", "a", "n", "g">>, wg |-> <<"k", "a", "n", "g">>, meta |-> ""],
    [py |-> <<"p", "a">>, wg |-> <<"p", "'", "a">>, meta |-> ""],
    [py |-> <<"p", "i", "n", "g">>, wg |-> <<"p", "'", "i", "n", "g">>, meta |-> ""],
    [py |-> <<"k", "e">>, wg |-> <<"k", "'", "o">>, meta |-> ""],
    [py |-> <<"r", "e">>, wg |-> <<"j", "e">>, meta |-> ""],
    [py |-> <<"r", "e", "n">>, wg |-> <<"j", "e", "n">>, meta |-> ""],
    [py |-> <<"n", "a">>, wg |-> <<"n", "a">>, meta |-> ""],
    [py |-> <<"l", "a">>, wg |-> <<"l", "a">>, meta |-> ""],
    [py |-> <<"g", "e">>, wg |-> <<"k", "o">>, meta |-> ""] >>

init_list(m) == IF m = "py" THEN py_init_list ELSE wg_init_list

fin_list(m) == IF m = "py" THEN py_fin_list ELSE wg_fin_list

ar(m) == IF m = "py" THEN py_ar ELSE wg_ar

null_initial == <<"null">>

----------------------------------------------------------------------------
(* syllable.py, strategies/ *)

\* SyllableProcessor.validate_final_using_array
validate_final_using_array(m, initial, final) ==
  /\ initial \in init_list(m)
  /\ final \in fin_list(m)
  /\ <<initial, final>> \in ar(m)

_validate_final(m, initial, final) == validate_final_using_array(m, initial, final)

\* handle_apostrophe_in_initial that leaves the apostrophe out of the initial
\* under both methods
handle_apostrophe_in_initial_dropped(m, text, index) == Take(text, index)

\* RomanizationStrategy.handle_apostrophe_in_initial and its Wade-Giles override
handle_apostrophe_in_initial(m, text, index) ==
  IF m = "wg" THEN Take(text, index) \o <<"'">> ELSE Take(text, index)

\* the loop of Syllable._find_initial from position i (0-based) on
RECURSIVE _find_initial_from(_, _, _)
_find_initial_from(m, text, i) ==
  IF i >= Len(text) THEN text
  ELSE LET c == text[i + 1] IN
       IF c \in vowels
       THEN (IF i = 0 THEN null_initial ELSE Take(text, i))
       ELSE IF c \in apostrophes
            THEN handle_apostrophe_in_initial(m, text, i)
            ELSE _find_initial_from(m, text, i + 1)

_find_initial(m, text) == _find_initial_from(m, text, 0)

\* Python's None, as handle_vowel_case returns it
None == <<"None">>

\* handle_vowel_case that never cuts the final before a rejected vowel
handle_vowel_case_no_back_off(m, text, i, initial) ==
  IF i + 1 = Len(text) THEN text ELSE None

\* handle_vowel_case without the guard "if i > 0" on the early cut
handle_vowel_case_unguarded(m, text, i, initial) ==
  IF i + 1 = Len(text) THEN text
  ELSE IF {f_item \in fin_list(m) :
              /\ startswith(f_item, Take(text, i + 1))
              /\ _validate_final(m, initial, f_item)} = {}
       THEN Take(text, i)
       ELSE None

handle_vowel_case(m, text, i, initial) ==
  IF i + 1 = Len(text) THEN text
  ELSE LET test_finals ==
             {f_item \in fin_list(m) :
                 /\ startswith(f_item, Take(text, i + 1))
                 /\ _validate_final(m, initial, f_item)}
       IN  IF test_finals = {}
           THEN (IF i = 0 THEN None ELSE Take(text, i))
           ELSE None

\* handle_n_case that keeps "ng" whenever a "g" follows the "n"
handle_n_case_greedy(m, text, i, initial) ==
  IF text[i + 1] = "n"
  THEN IF i + 2 <= Len(text) /\ text[i + 2] = "g" THEN Take(text, i + 2)
       ELSE Take(text, i + 1)
  ELSE Take(text, i)

\* handle_n_case that always ends the final after an "n" not followed by "g"
handle_n_case_n_kept(m, text, i, initial) ==
  LET remainder == Len(text) - i - 1 IN
  IF text[i + 1] = "n"
  THEN LET next_char_is_g == remainder > 0 /\ text[i + 2] = "g"
           valid_ng == /\ next_char_is_g
                       /\ \/ remainder = 1
                          \/ text[i + 3] \notin vowels
                          \/ ~_validate_final(m, initial, Take(text, i + 1))
       IN  IF valid_ng THEN Take(text, i + 2)
           ELSE Take(text, i + 1)
  ELSE Take(text, i)

\* handle_n_case that keeps "ng" when one character is left after the "g"
\* instead of none
handle_n_case_one_left(m, text, i, initial) ==
  LET remainder == Len(text) - i - 1 IN
  IF text[i + 1] = "n"
  THEN LET next_char_is_g == remainder > 0 /\ text[i + 2] = "g"
           valid_ng == /\ next_char_is_g
                       /\ \/ remainder = 2
                          \/ remainder > 2 /\ text[i + 3] \notin vowels
                          \/ ~_validate_final(m, initial, Take(text, i + 1))
           valid_n == \/ remainder = 0
                      \/ text[i + 2] \notin vowels
                      \/ ~_validate_final(m, initial, Take(text, i))
       IN  IF valid_ng THEN Take(text, i + 2)
           ELSE IF next_char_is_g THEN Take(text, i + 1)
           ELSE IF valid_n THEN Take(text, i + 1)
           ELSE Take(text, i)
  ELSE Take(text, i)

\* the "n"/"ng" part and the default of handle_consonant_case
handle_n_case(m, text, i, initial) ==
  LET remainder == Len(text) - i - 1 IN
  IF text[i + 1] = "n"
  THEN LET next_char_is_g == remainder > 0 /\ text[i + 2] = "g"
           valid_ng == /\ next_char_is_g
                       /\ \/ remainder = 1
                          \/ text[i + 3] \notin vowels
                          \/ ~_validate_final(m, initial, Take(text, i + 1))
           valid_n == \/ remainder = 0
                      \/ text[i + 2] \notin vowels
                      \/ ~_validate_final(m, initial, Take(text, i))
       IN  IF valid_ng THEN Take(text, i + 2)
           ELSE IF next_char_is_g THEN Take(text, i + 1)
           ELSE IF valid_n THEN Take(text, i + 1)
           ELSE Take(text, i)
  ELSE Take(text, i)

handle_consonant_case(m, text, i, initial) ==
  LET remainder == Len(text) - i - 1 IN
  IF Slice(text, i - 1, i + 1) = <<"e", "r">>
  THEN IF m = "wg"
       THEN (IF remainder > 0 /\ text[i + 2] = "h"
             THEN Take(text, i + 2)
             ELSE Take(text, i + 1))
       ELSE (IF remainder = 0 \/ text[i + 2] \notin vowels
             THEN Take(text, i + 1)
             ELSE handle_n_case(m, text, i, initial))
  ELSE handle_n_case(m, text, i, initial)

\* the loop of PinyinStrategy.find_final from position i (0-based) on;
\* final is what handle_vowel_case returned at a vowel
RECURSIVE PinyinStrategy_find_final_from(_, _, _)
vowel_case_or_next(final, text, i, initial) ==
  IF final # None THEN final
  ELSE PinyinStrategy_find_final_from(text, i + 1, initial)

PinyinStrategy_find_final_from(text, i, initial) ==
  IF i >= Len(text) THEN text
  ELSE IF text[i + 1] \in vowels
       THEN vowel_case_or_next(handle_vowel_case("py", text, i, initial),
                               text, i, initial)
       ELSE handle_consonant_case("py", text, i, initial)

PinyinStrategy_find_final(text, initial) ==
  PinyinStrategy_find_final_from(text, 0, initial)

_can_form_valid_wg_syllables(text) ==
  /\ Len(text) > 1
  /\ \/ \E init \in wg_init_list \ {null_initial} : startswith(text, init)
     \/ text[1] \in vowels

_is_complete_wg_syllable_valid(syllable_text) ==
  \/ \E initial \in wg_init_list \ {null_initial} :
        /\ startswith(syllable_text, initial)
        /\ validate_final_using_array("wg", initial,
                                      Drop(syllable_text, Len(initial)))
  \/ /\ syllable_text # <<>>
     /\ syllable_text[1] \in vowels
     /\ validate_final_using_array("wg", null_initial, syllable_text)

\* _find_wg_final_with_backtrack returning the shortest final that passes
_find_wg_final_shortest(text, initial) ==
  LET valid_finals ==
        {final_end \in 1..(Len(text) - 1) :
            /\ validate_final_using_array("wg", initial, Take(text, final_end))
            /\ _can_form_valid_wg_syllables(Drop(text, final_end))}
  IN  IF Len(text) > 0 /\ validate_final_using_array("wg", initial, text)
      THEN text
      ELSE IF valid_finals # {}
           THEN Take(text, CHOOSE e \in valid_finals :
                              \A o \in valid_finals : e <= o)
           ELSE text

\* The loop runs final_end from len(text) down to 1: a valid final that
\* leaves no text is returned at once (first iteration); otherwise the
\* first entry appended to valid_finals, the longest, is returned.
\* _find_wg_final_with_backtrack that does not look at the remaining text
_find_wg_final_no_look_ahead(text, initial) ==
  LET valid_finals ==
        {final_end \in 1..(Len(text) - 1) :
            validate_final_using_array("wg", initial, Take(text, final_end))}
  IN  IF Len(text) > 0 /\ validate_final_using_array("wg", initial, text)
      THEN text
      ELSE IF valid_finals # {}
           THEN Take(text, CHOOSE e \in valid_finals :
                              \A o \in valid_finals : o <= e)
           ELSE text

_find_wg_final_with_backtrack(text, initial) ==
  LET valid_finals ==
        {final_end \in 1..(Len(text) - 1) :
            /\ validate_final_using_array("wg", initial, Take(text, final_end))
            /\ _can_form_valid_wg_syllables(Drop(text, final_end))}
  IN  IF Len(text) > 0 /\ validate_final_using_array("wg", initial, text)
      THEN text
      ELSE IF valid_finals # {}
           THEN Take(text, CHOOSE e \in valid_finals :
                              \A o \in valid_finals : o <= e)
           ELSE text

\* _find_wg_syllable_boundaries with the loop started at 1
_find_wg_syllable_boundaries_from_1(text) ==
  LET ends ==
        {syllable_end \in 1..Len(text) :
            /\ _is_complete_wg_syllable_valid(Take(text, syllable_end))
            /\ \/ Drop(text, syllable_end) = <<>>
               \/ _can_form_valid_wg_syllables(Drop(text, syllable_end))}
  IN  IF ends # {}
      THEN Take(text, CHOOSE e \in ends : \A o \in ends : e <= o)
      ELSE text

\* The loop runs syllable_end from 2 up to len(text) and returns at the
\* first end that qualifies.
_find_wg_syllable_boundaries(text) ==
  LET ends ==
        {syllable_end \in 2..Len(text) :
            /\ _is_complete_wg_syllable_valid(Take(text, syllable_end))
            /\ \/ Drop(text, syllable_end) = <<>>
               \/ _can_form_valid_wg_syllables(Drop(text, syllable_end))}
  IN  IF ends # {}
      THEN Take(text, CHOOSE e \in ends : \A o \in ends : e <= o)
      ELSE text

WadeGilesStrategy_find_final(text, initial) ==
  LET at == {k \in 1..Len(text) : text[k] \in apostrophes} IN
  IF at # {}
  THEN Take(text, (CHOOSE k \in at : \A o \in at : k <= o) - 1)
  ELSE IF initial # <<>> /\ initial # null_initial
       THEN _find_wg_final_with_backtrack(text, initial)
       ELSE _find_wg_syllable_boundaries(text)

\* Syllable._find_final: the strategy of the processor's method
_find_final(m, text, initial) ==
  IF m = "wg" THEN WadeGilesStrategy_find_final(text, initial)
  ELSE PinyinStrategy_find_final(text, initial)

\* _find_initial_final that takes the remainder after the length of the
\* final alone
initial_final_after_final(text, initial, final) ==
  [initial |-> initial, final |-> final, full_syllable |-> initial \o final,
   remainder |-> Drop(text, Len(final))]

\* the end of Syllable._find_initial_final: full_syllable and remainder
initial_final(text, initial, final) ==
  [initial |-> initial, final |-> final, full_syllable |-> initial \o final,
   remainder |-> Drop(text, Len(initial) + Len(final))]

\* Syllable._find_initial_final after _find_initial returned found: the
\* sentinel stands for an empty initial
find_final_after(m, text, found) ==
  initial_final(text,
                IF found = null_initial THEN <<>> ELSE found,
                _find_final(m,
                            IF found = null_initial THEN text
                            ELSE Drop(text, Len(found)),
                            found))

\* Syllable._find_initial_final: initial, final, full_syllable, remainder
_find_initial_final(m, text) ==
  find_final_after(m, text, _find_initial(m, text))

\* Syllable._validate_syllable
_validate_syllable(m, initial, final) ==
  IF initial = <<>> THEN _validate_final(m, null_initial, final)
  ELSE _validate_final(m, initial, final)

\* SyllableStatusAttributes._is_titlecase: istitle() of the ASCII letters
\* (an upper-case letter first, lower-case letters after it)
_is_titlecase(text) ==
  LET letters == SelectSeq(text, LAMBDA c : c \in ascii_letters)
  IN  /\ Len(letters) > 0
      /\ letters[1] \in upper_letters
      /\ \A k \in 2..Len(letters) : letters[k] \in lower_letters

\* Syllable._handle_first_char: the text without a leading dash, or a
\* leading apostrophe under Pinyin
_handle_first_char(m, lowered) ==
  IF (lowered[1] \in apostrophes /\ m # "wg") \/ lowered[1] \in dashes
  THEN Tail(lowered) ELSE lowered

\* the Syllable object, from the text given, the text parsed and its parts
syllable_object(m, given, text, parts) ==
  [text |-> text,
   initial |-> parts.initial,
   final |-> parts.final,
   full_syllable |-> parts.full_syllable,
   remainder |-> parts.remainder,
   valid |-> _validate_syllable(m, parts.initial, parts.final),
   has_apostrophe |-> str_lower(given)[1] \in apostrophes,
   has_dash |-> str_lower(given)[1] \notin apostrophes
                  /\ str_lower(given)[1] \in dashes,
   uppercase |-> str_isupper(given),
   capitalize |-> _is_titlecase(given)]

\* Syllable._process_syllable
_process_syllable(m, given, text) ==
  syllable_object(m, given, text, _find_initial_final(m, text))

\* Syllable.__init__ that parses the text in the letter case it is given in
Syllable_case_kept(m, given) ==
  _process_syllable(m, given, _handle_first_char(m, given))

\* Syllable.__init__: SyllableTextAttributes lower-cases the text
Syllable(m, given) ==
  _process_syllable(m, given, _handle_first_char(m, str_lower(given)))

\* SyllableProcessor.create_syllable
create_syllable(m, text) == Syllable(m, text)

----------------------------------------------------------------------------
(* chunker.py *)

\* [a-zA-ZüÜ]
regex_letters == ascii_letters \cup {"uuml", "Uuml"}

\* the apostrophes of the chunker's patterns
regex_apostrophes == {"'", "rsquo", "modapos", "grave"}

\* the dashes of the chunker's patterns
regex_dashes == {"-", "endash", "emdash"}

\* the canonical compositions of a combining mark: the letters that
\* compose with it when it follows them, each with the composed character
canonical_compositions(mark) ==
  IF mark = "diaeresis" THEN
    { <<"a", "auml">>, <<"e", "euml">>, <<"h", "huml">>,
      <<"i", "iuml">>, <<"o", "ouml">>, <<"t", "tuml">>,
      <<"u", "uuml">>, <<"w", "wuml">>, <<"x", "xuml">>,
      <<"y", "yuml">>, <<"A", "Auml">>, <<"E", "Euml">>,
      <<"H", "Huml">>, <<"I", "Iuml">>, <<"O", "Ouml">>,
      <<"U", "Uuml">>, <<"W", "Wuml">>, <<"X", "Xuml">>,
      <<"Y", "Yuml">> }
  ELSE IF mark = "dotabove" THEN
    { <<"a", "adot">>, <<"b", "bdot">>, <<"c", "cdot">>,
      <<"d", "ddot">>, <<"e", "edot">>, <<"f", "fdot">>,
      <<"g", "gdot">>, <<"h", "hdot">>, <<"m", "mdot">>,
      <<"n", "ndot">>, <<"o", "odot">>, <<"p", "pdot">>,
      <<"r", "rdot">>, <<"s", "sdot">>, <<"t", "tdot">>,
      <<"w", "wdot">>, <<"x", "xdot">>, <<"y", "ydot">>,
      <<"z", "zdot">>, <<"A", "Adot">>, <<"B", "Bdot">>,
      <<"C", "Cdot">>, <<"D", "Ddot">>, <<"E", "Edot">>,
      <<"F", "Fdot">>, <<"G", "Gdot">>, <<"H", "Hdot">>,
      <<"I", "Idot">>, <<"M", "Mdot">>, <<"N", "Ndot">>,
      <<"O", "Odot">>, <<"P", "Pdot">>, <<"R", "Rdot">>,
      <<"S", "Sdot">>, <<"T", "Tdot">>, <<"W", "Wdot">>,
      <<"X", "Xdot">>, <<"Y", "Ydot">>, <<"Z", "Zdot">> }
  ELSE {}

\* unicodedata.normalize('NFC', text) on the modelled characters: a letter
\* followed by a combining mark it has a composed form with becomes that
\* form. The two marks have the same combining class, so a mark composes
\* only with the letter right before it, and no composed character of the
\* table composes with a second mark.
RECURSIVE normalize_NFC(_)
normalize_NFC(text) ==
  IF Len(text) < 2 THEN text
  ELSE LET composed == {p \in canonical_compositions(text[2]) : p[1] = text[1]}
       IN IF composed # {}
          THEN <<(CHOOSE p \in composed : TRUE)[2]>>
                 \o normalize_NFC(Drop(text, 2))
          ELSE <<text[1]>> \o normalize_NFC(Tail(text))

\* end (1-based, inclusive) of the longest run of characters of set cs
\* that starts at position k
RECURSIVE run_end(_, _, _)
run_end(text, k, cs) ==
  IF k < Len(text) /\ text[k + 1] \in cs THEN run_end(text, k + 1, cs) ELSE k

\* end of the match of letters+(?:symbol letters+)* that starts at k
RECURSIVE word_match_end(_, _)
\* word_match_end that ends a word at the first apostrophe or dash
word_match_end_at_symbol(text, k) == run_end(text, k, regex_letters)

word_match_end(text, k) ==
  LET e == run_end(text, k, regex_letters) IN
  IF /\ e + 2 <= Len(text)
     /\ text[e + 1] \in regex_apostrophes \cup regex_dashes
     /\ text[e + 2] \in regex_letters
  THEN word_match_end(text, e + 2)
  ELSE e

\* re.findall of the pattern of _split_text_into_segments from position k
RECURSIVE findall_segments(_, _, _)
findall_segments(text, k, error_skip) ==
  IF k > Len(text) THEN <<>>
  ELSE IF text[k] \in regex_letters
       THEN LET e == word_match_end(text, k) IN
            <<SubSeq(text, k, e)>> \o findall_segments(text, e + 1, error_skip)
       ELSE LET e == run_end(text, k, {text[j] : j \in k..Len(text)} \ regex_letters) IN
            (IF error_skip THEN <<SubSeq(text, k, e)>> ELSE <<>>)
              \o findall_segments(text, e + 1, error_skip)

_split_text_into_segments(text, error_skip) ==
  findall_segments(normalize_NFC(text), 1, error_skip)

\* re.findall of the pattern of _split_word from position k: a run of
\* body characters, or one lead character followed by such a run
RECURSIVE findall_split(_, _, _, _)
findall_split(word, k, body, lead) ==
  IF k > Len(word) THEN <<>>
  ELSE IF word[k] \in body
       THEN LET e == run_end(word, k, body) IN
            <<SubSeq(word, k, e)>> \o findall_split(word, e + 1, body, lead)
       ELSE IF word[k] \in lead /\ k < Len(word) /\ word[k + 1] \in body
            THEN LET e == run_end(word, k + 1, body) IN
                 <<SubSeq(word, k, e)>> \o findall_split(word, e + 1, body, lead)
            ELSE findall_split(word, k + 1, body, lead)

\* _split_word: Wade-Giles keeps apostrophes inside the pieces and cuts in
\* front of dashes, Pinyin cuts in front of apostrophes and dashes.
_split_word(m, word) ==
  LET split_words ==
        IF m = "wg"
        THEN findall_split(word, 1, regex_letters \cup regex_apostrophes,
                           regex_dashes)
        ELSE findall_split(word, 1, regex_letters,
                           regex_apostrophes \cup regex_dashes)
  IN  IF Len(split_words) > 1 THEN split_words ELSE <<word>>

\* _send_to_syllable_processor / _cached_syllable_processor: the memoized
\* create_syllable of this TextChunkProcessor
_send_to_syllable_processor(m, remaining) == create_syllable(m, remaining)

\* the while loop of _process_split_words on one sub-run
RECURSIVE parse_split_word(_, _)
parse_split_word(m, remaining) ==
  IF remaining = <<>> THEN <<>>
  ELSE LET syllable_obj == _send_to_syllable_processor(m, remaining)
       IN  <<syllable_obj>> \o parse_split_word(m, syllable_obj.remainder)

\* _process_split_words: the syllables of all sub-runs of one letter-run
RECURSIVE _process_split_words(_, _)
_process_split_words(m, split_words) ==
  IF split_words = <<>> THEN <<>>
  ELSE parse_split_word(m, Head(split_words))
         \o _process_split_words(m, Tail(split_words))

\* TextChunkProcessor._process_text, one segment: a letter-run becomes the
\* list of its syllables, any other segment is kept as a string
chunk_of(m, segment) ==
  IF segment[1] \in regex_letters
  THEN [is_list |-> TRUE,
        syllables |-> _process_split_words(m, _split_word(m, segment)),
        text |-> <<>>]
  ELSE [is_list |-> FALSE, syllables |-> <<>>, text |-> segment]

\* the loop of TextChunkProcessor._process_text over the segments
chunks_of(segments, m) ==
  [k \in DOMAIN segments |-> chunk_of(m, segments[k])]

\* TextChunkProcessor(text, config, method_params).get_chunks()
get_chunks(text, config, m) ==
  chunks_of(_split_text_into_segments(text, config.error_skip), m)

----------------------------------------------------------------------------
(* config.py, conversion.py *)

Config(crumbs, error_skip, error_report) ==
  [crumbs |-> crumbs, error_skip |-> error_skip, error_report |-> error_report]

column(row, m) == IF m = "py" THEN row.py ELSE row.wg

\* _cached_convert that compares the text as it is given with the source
\* column
_cached_convert_case_sensitive(convert_from, convert_to, text_to_convert) ==
  LET rows == {k \in DOMAIN conversion_mapping :
                 column(conversion_mapping[k], convert_from)
                   = text_to_convert}
  IN  IF rows = {} THEN text_to_convert \o <<"(", "!", ")">>
      ELSE LET row == conversion_mapping[CHOOSE k \in rows :
                                            \A o \in rows : k <= o]
           IN  IF column(row, convert_to) = <<>> /\ row.meta = "rare"
               THEN text_to_convert
                      \o <<"(", "!", "r", "a", "r", "e", " ", "P", "i", "n",
                           "y", "i", "n", "!", ")">>
               ELSE column(row, convert_to)

\* RomanizationConverter._cached_convert: the first row whose source
\* column equals the lower-cased text
_cached_convert(convert_from, convert_to, text_to_convert) ==
  LET lowercased_text == str_lower(text_to_convert)
      rows == {k \in DOMAIN conversion_mapping :
                 str_lower(column(conversion_mapping[k], convert_from))
                   = lowercased_text}
  IN  IF rows = {} THEN text_to_convert \o <<"(", "!", ")">>
      ELSE LET row == conversion_mapping[CHOOSE k \in rows :
                                            \A o \in rows : k <= o]
           IN  IF column(row, convert_to) = <<>> /\ row.meta = "rare"
               THEN text_to_convert
                      \o <<"(", "!", "r", "a", "r", "e", " ", "P", "i", "n",
                           "y", "i", "n", "!", ")">>
               ELSE column(row, convert_to)

\* RomanizationConverter.convert
converter_convert(convert_from, convert_to, text) ==
  _cached_convert(convert_from, convert_to, text)

\* Syllable.apply_caps
Syllable_apply_caps(syl, text) ==
  IF syl.uppercase THEN str_upper(text)
  ELSE IF syl.capitalize THEN str_capitalize(text)
  ELSE text

----------------------------------------------------------------------------
(* word.py: a WordProcessor is the record of its config, convert_from,     *)
(* convert_to and stopwords; a Word is the list of its syllables.          *)

WordProcessor(config, convert_from, convert_to, stopwords) ==
  [config |-> config, convert_from |-> convert_from,
   convert_to |-> convert_to, stopwords |-> stopwords]

_create_preview_word(syls) ==
  Concat([k \in DOMAIN syls |->
            IF syls[k].has_apostrophe THEN <<"'">> \o syls[k].full_syllable
            ELSE IF syls[k].has_dash THEN <<"-">> \o syls[k].full_syllable
            ELSE syls[k].full_syllable])

all_valid(syls) == \A k \in DOMAIN syls : syls[k].valid

is_contraction(syls, processor) ==
  /\ \A k \in 1..(Len(syls) - 1) : syls[k].valid
  /\ syls[Len(syls)].has_apostrophe
  /\ syls[Len(syls)].full_syllable \in supported_contractions
  /\ processor.config.error_skip

is_convertable(syls, processor) ==
  /\ all_valid(syls) \/ is_contraction(syls, processor)
  /\ _create_preview_word(syls) \notin processor.stopwords

\* Word.convert that passes every syllable through the converter whatever
\* error_skip is
convert_every_syllable(syls, processor) ==
  [k \in DOMAIN syls |->
     [text |-> converter_convert(processor.convert_from,
                                 processor.convert_to,
                                 syls[k].full_syllable),
      syl |-> syls[k]]]

\* Word.convert: processed_syllables, a list of (text, syllable)
convert(syls, processor) ==
  LET converted(syl) == converter_convert(processor.convert_from,
                                          processor.convert_to,
                                          syl.full_syllable)
  IN  IF ~processor.config.error_skip
      THEN [k \in DOMAIN syls |-> [text |-> converted(syls[k]), syl |-> syls[k]]]
      ELSE IF is_convertable(syls, processor)
           THEN [k \in DOMAIN syls |->
                   [text |-> IF syls[k].valid THEN converted(syls[k])
                             ELSE syls[k].full_syllable,
                    syl |-> syls[k]]]
           ELSE [k \in DOMAIN syls |->
                   [text |-> syls[k].full_syllable, syl |-> syls[k]]]

\* Word.apply_caps
apply_caps(processed_syllables) ==
  [k \in DOMAIN processed_syllables |->
     [text |-> Syllable_apply_caps(processed_syllables[k].syl,
                                   processed_syllables[k].text),
      syl |-> processed_syllables[k].syl]]

endswith(s, suffix) ==
  Len(suffix) <= Len(s)
    /\ SubSeq(s, Len(s) - Len(suffix) + 1, Len(s)) = suffix

_needs_apostrophe(prev_syllable, curr_syllable) ==
  \/ prev_syllable[Len(prev_syllable)] \in vowels /\ curr_syllable[1] \in vowels
  \/ endswith(prev_syllable, <<"e", "r">>) /\ curr_syllable[1] \in vowels
  \/ prev_syllable[Len(prev_syllable)] = "n" /\ curr_syllable[1] \in vowels
  \/ endswith(prev_syllable, <<"n", "g">>) /\ curr_syllable[1] \in vowels

\* _append_syllable that puts a dash before every syllable but the last one
\* appended
_append_syllable_last_undashed(processed_syllables, i, processor, contraction) ==
  IF processor.convert_to = "wg" /\ i < Len(processed_syllables)
  THEN <<"-">> \o processed_syllables[i].text
  ELSE processed_syllables[i].text

\* Word._append_syllable: what is appended to final_word for the syllable
\* at 1-based position i
_append_syllable(processed_syllables, i, processor, contraction) ==
  LET prev_syllable == processed_syllables[i - 1].text
      curr_syllable == processed_syllables[i].text
  IN  IF processor.convert_to = "py" /\ processed_syllables[i].syl.valid
      THEN (IF _needs_apostrophe(prev_syllable, curr_syllable)
            THEN <<"'">> \o curr_syllable
            ELSE curr_syllable)
      ELSE IF processor.convert_to = "wg"
           THEN (IF contraction /\ i = Len(processed_syllables)
                 THEN <<"'">> \o curr_syllable
                 ELSE <<"-">> \o curr_syllable)
           ELSE <<>>

\* Word._append_all_syllables
_append_all_syllables(processed_syllables) ==
  Concat([k \in DOMAIN processed_syllables |->
            IF processed_syllables[k].syl.has_apostrophe
            THEN <<"'">> \o processed_syllables[k].text
            ELSE IF processed_syllables[k].syl.has_dash
                 THEN <<"-">> \o processed_syllables[k].text
                 ELSE processed_syllables[k].text])

\* Word.add_symbols: final_word
add_symbols(processed_syllables, syls, processor) ==
  IF is_convertable(syls, processor)
  THEN processed_syllables[1].text
         \o Concat([k \in 1..(Len(processed_syllables) - 1) |->
                      _append_syllable(processed_syllables, k + 1, processor,
                                       is_contraction(syls, processor))])
  ELSE _append_all_syllables(processed_syllables)

\* Word.process_syllables
process_syllables(syls, processor) ==
  add_symbols(apply_caps(convert(syls, processor)), syls, processor)

----------------------------------------------------------------------------
(* utils.py.  A call's config argument is a record whose field given tells *)
(* a Config object from None; its kwargs are a set of <<name, value>>.     *)

no_config ==
  [given |-> FALSE, crumbs |-> FALSE, error_skip |-> FALSE,
   error_report |-> FALSE]

config_object(crumbs, error_skip, error_report) ==
  [given |-> TRUE, crumbs |-> crumbs, error_skip |-> error_skip,
   error_report |-> error_report]

\* the value a keyword gives, False when it is absent
kwarg(kwargs, name) == \E p \in kwargs : p[1] = name /\ p[2]

\* Config(**kwargs)
Config_from_kwargs(kwargs) ==
  Config(kwarg(kwargs, "crumbs"), kwarg(kwargs, "error_skip"),
         kwarg(kwargs, "error_report"))

\* the condition under which a public function hands its config argument
\* to the wrapped function: kwargs or (config and any(flags))
passes_config(config, kwargs, flags) ==
  kwargs # {} \/ (config.given /\ \E f \in flags : config[f])

all_flags == {"crumbs", "error_skip", "error_report"}

\* config_info of the _cached_* functions: the Config object passed on, or
\* Config(**kwargs) when none is
config_info(config, kwargs, flags) ==
  IF config.given /\ passes_config(config, kwargs, flags)
  THEN Config(config.crumbs, config.error_skip, config.error_report)
  ELSE Config_from_kwargs(kwargs)

\* utils._process_text
_process_text(text, m, config) == get_chunks(text, config, m)

returned(value) == [done |-> TRUE, raised |-> "", value |-> value]

raised(exception) == [done |-> TRUE, raised |-> exception, value |-> <<>>]

\* the loop of _cached_segment_text: the full_syllable of every syllable
segmented_result(chunks) ==
  [k \in DOMAIN chunks |->
     IF chunks[k].is_list
     THEN [is_list |-> TRUE,
           syllables |-> [j \in DOMAIN chunks[k].syllables |->
                            chunks[k].syllables[j].full_syllable],
           text |-> <<>>]
     ELSE chunks[k]]

segment_text(text, m, config, kwargs) ==
  returned(segmented_result(
             _process_text(text, m, config_info(config, kwargs, all_flags))))

RECURSIVE str_join(_, _)
str_join(sep, texts) ==
  IF texts = <<>> THEN <<>>
  ELSE IF Len(texts) = 1 THEN texts[1]
  ELSE texts[1] \o sep \o str_join(sep, Tail(texts))

\* the loop of _conversion_processing over the chunks
concat_text(chunks, word_processor) ==
  [k \in DOMAIN chunks |->
     IF chunks[k].is_list
     THEN process_syllables(chunks[k].syllables, word_processor)
     ELSE chunks[k].text]

_conversion_processing(text, convert_from, convert_to, config, stopwords, include_spaces) ==
  IF include_spaces
  THEN str_join(<<" ">>,
                concat_text(_process_text(text, convert_from, config),
                            WordProcessor(config, convert_from, convert_to,
                                          stopwords)))
  ELSE Concat(concat_text(_process_text(text, convert_from, config),
                          WordProcessor(config, convert_from, convert_to,
                                        stopwords)))

convert_text(text, convert_from, convert_to, config, kwargs) ==
  returned(_conversion_processing(text, convert_from, convert_to,
                                  config_info(config, kwargs, all_flags),
                                  stopword_list, TRUE))

\* config_info of _cached_cherry_pick: the Config object passed on, or
\* Config(error_skip=True, **kwargs)
cherry_pick_config_info(config, kwargs) ==
  IF config.given /\ passes_config(config, kwargs, {"crumbs", "error_report"})
  THEN Config(config.crumbs, config.error_skip, config.error_report)
  ELSE Config(kwarg(kwargs, "crumbs"), TRUE, kwarg(kwargs, "error_report"))

\* cherry_pick: Config(error_skip=True, **kwargs) raises TypeError when
\* kwargs holds error_skip too
cherry_pick(text, convert_from, convert_to, config, kwargs) ==
  IF /\ ~(config.given
            /\ passes_config(config, kwargs, {"crumbs", "error_report"}))
     /\ "error_skip" \in {p[1] : p \in kwargs}
  THEN raised("TypeError")
  ELSE returned(_conversion_processing(
                  text, convert_from, convert_to,
                  cherry_pick_config_info(config, kwargs),
                  stopword_list, FALSE))

list_chunks(chunks) == SelectSeq(chunks, LAMBDA chunk : chunk.is_list)

\* [len(chunk) for chunk in chunks if isinstance(chunk, list)]
syllable_count(text, m, config, kwargs) ==
  LET chunks == list_chunks(
                  _process_text(text, m,
                                config_info(config, kwargs, all_flags)))
  IN  returned([k \in DOMAIN chunks |-> Len(chunks[k].syllables)])

\* the syllables of all list chunks, in order
syllable_chunks(chunks) ==
  Concat([k \in DOMAIN chunks |-> chunks[k].syllables])

\* detect_for_chunk that lists a method as soon as one syllable is valid
detect_for_chunk_some_valid(chunk, config) ==
  LET fits(m) == \E k \in DOMAIN syllable_chunks(
                                   _process_text(chunk, m, config)) :
                    syllable_chunks(_process_text(chunk, m, config))[k].valid
  IN  SelectSeq(<<"py", "wg">>, fits)

\* detect_for_chunk: the methods, in the order of method_shorthand_to_full,
\* under which the chunk has syllables and all of them are valid
detect_for_chunk(chunk, config) ==
  LET found(m) == syllable_chunks(_process_text(chunk, m, config))
      fits(m) == found(m) # <<>> /\ all_valid(found(m))
  IN  SelectSeq(<<"py", "wg">>, fits)

\* detect_method called with per_word False: the methods valid for the
\* whole text (the per-word branch, over text.split(), is not modelled)
detect_method(text, config, kwargs) ==
  returned(detect_for_chunk(text, config_info(config, kwargs, all_flags)))

\* the per-word result of validator
word_results(words) ==
  [k \in DOMAIN words |->
     [word |-> Concat([j \in DOMAIN words[k].syllables |->
                         words[k].syllables[j].full_syllable]),
      syllables |-> [j \in DOMAIN words[k].syllables |->
                       words[k].syllables[j].full_syllable],
      valid |-> [j \in DOMAIN words[k].syllables |->
                   words[k].syllables[j].valid]]]

\* validation_of that accepts a text as soon as one of its syllables is valid
validation_of_some_valid(chunks, per_word) ==
  IF ~per_word
  THEN syllable_chunks(chunks) = <<>>
         \/ \E k \in DOMAIN syllable_chunks(chunks) :
               syllable_chunks(chunks)[k].valid
  ELSE word_results(list_chunks(chunks))

\* validator._cached_validator after _process_text
validation_of(chunks, per_word) ==
  IF ~per_word THEN all_valid(syllable_chunks(chunks))
  ELSE word_results(list_chunks(chunks))

validator(text, m, per_word, config, kwargs) ==
  returned(validation_of(
             _process_text(text, m, config_info(config, kwargs, all_flags)),
             per_word))

----------------------------------------------------------------------------
(* functools.lru_cache.  The program has three: that of                    *)
(* TextChunkProcessor._cached_syllable_processor, one for the class, whose *)
(* key holds the chunker the call is made on; that of                      *)
(* RomanizationConverter._cached_convert, one for each converter (the      *)
(* function is a closure made in __init__); and that of                    *)
(* utils._process_text, one for the module.  An lru_cache is the record of *)
(* its entries, the most recently used first, of the misses cache_info()   *)
(* counts and of its maxsize.  cache holds the three: cache.chunker,       *)
(* cache.converter for the converter made last (a conversion makes a new   *)
(* one), and cache.process_text.                                           *)

\* an lru_cache nothing has been asked of
empty_cache(maxsize) == [entries |-> <<>>, misses |-> 0, maxsize |-> maxsize]

\* the caches of a fresh process
new_caches ==
  [chunker |-> empty_cache(10000), converter |-> empty_cache(10000),
   process_text |-> empty_cache(1000000)]

\* a key that leaves out the object the call is made on
cache_key_shared(self, text) == <<0, text>>

\* the key lru_cache files a call under: the arguments of the call, self
\* included for a method (0 for the closure, which has none)
cache_key(self, text) == <<self, text>>

cached_keys(c) == {c.entries[k].key : k \in DOMAIN c.entries}

cache_entry(c, key) ==
  c.entries[CHOOSE k \in DOMAIN c.entries : c.entries[k].key = key]

\* what a call of an lru_cache wrapper returns: the stored result on a
\* hit, what the wrapped function returns (value) on a miss
lru_cache_value(c, key, value) ==
  IF key \in cached_keys(c) THEN cache_entry(c, key).value ELSE value

\* the lru_cache after that call: on a hit the entry becomes the most
\* recently used; on a miss the result is stored, and the least recently
\* used entry leaves a full cache
lru_cache_after(c, key, value) ==
  IF key \in cached_keys(c)
  THEN [c EXCEPT !.entries = <<cache_entry(c, key)>>
                               \o SelectSeq(c.entries, LAMBDA e : e.key # key)]
  ELSE [c EXCEPT !.entries = Take(<<[key |-> key, value |-> value]>>
                                    \o c.entries, c.maxsize),
                 !.misses = c.misses + 1]

\* the texts the while loop of _process_split_words sends to the syllable
\* processor for one sub-run, in order
RECURSIVE texts_sent(_, _)
texts_sent(m, remaining) ==
  IF remaining = <<>> THEN <<>>
  ELSE <<remaining>>
         \o texts_sent(m, _send_to_syllable_processor(m, remaining).remainder)

\* the cache of _cached_syllable_processor after the chunker self has sent
\* these texts
RECURSIVE chunker_cache_after(_, _, _, _)
chunker_cache_after(c, self, m, texts) ==
  IF texts = <<>> THEN c
  ELSE chunker_cache_after(
         lru_cache_after(c, cache_key(self, Head(texts)),
                         create_syllable(m, Head(texts))),
         self, m, Tail(texts))

\* the Config object a public function works with, by identity: 0 is the
\* caller's object, handed on; a Config the function makes itself is named
\* by a number no earlier one has, one more than the misses of
\* _process_text so far
config_id(caches, config, kwargs, flags) ==
  IF config.given /\ passes_config(config, kwargs, flags) THEN 0
  ELSE caches.process_text.misses + 1

\* the key of a call of _process_text: a Config has no __eq__ or __hash__,
\* so the key holds the object and not its flags
process_text_key(text, m, id) == <<text, m, id>>

\* utils._process_text behind its lru_cache: the stored chunks on a hit, the
\* chunks under the flags the Config object has now on a miss
cached_process_text(caches, text, m, config, id) ==
  lru_cache_value(caches.process_text, process_text_key(text, m, id),
                  _process_text(text, m, config))

\* the caches after that call: on a miss _process_text makes a
\* TextChunkProcessor, named by the number of the miss, whose get_chunks
\* sends the syllable processor the texts of every sub-run of every
\* letter-run, in order
caches_after_process_text(caches, text, m, config, id) ==
  LET key == process_text_key(text, m, id)
      segments == _split_text_into_segments(text, config.error_skip)
      words == SelectSeq(segments, LAMBDA segment : segment[1] \in regex_letters)
      sent(word) == Concat([j \in DOMAIN _split_word(m, word) |->
                              texts_sent(m, _split_word(m, word)[j])])
  IN  IF key \in cached_keys(caches.process_text)
      THEN [caches EXCEPT !.process_text = lru_cache_after(@, key, <<>>)]
      ELSE [caches EXCEPT
              !.process_text =
                 lru_cache_after(@, key, _process_text(text, m, config)),
              !.chunker =
                 chunker_cache_after(
                   @, caches.process_text.misses + 1, m,
                   Concat([k \in DOMAIN words |-> sent(words[k])]))]

\* the cache of _cached_convert after the converter has been handed these
\* texts
RECURSIVE converter_cache_after(_, _, _, _)
converter_cache_after(c, convert_from, convert_to, texts) ==
  IF texts = <<>> THEN c
  ELSE converter_cache_after(
         lru_cache_after(c, cache_key(0, Head(texts)),
                         _cached_convert(convert_from, convert_to,
                                         Head(texts))),
         convert_from, convert_to, Tail(texts))

\* the caches after _conversion_processing: the WordProcessor it makes has a
\* new converter, which Word.convert hands the syllables of every word:
\* all of them without error_skip, the valid ones of a convertible word
\* with it
caches_after_conversion(caches, text, convert_from, convert_to, config, id, stopwords) ==
  LET words == list_chunks(cached_process_text(caches, text, convert_from,
                                               config, id))
      processor == WordProcessor(config, convert_from, convert_to, stopwords)
      handed(syls) ==
        IF ~processor.config.error_skip THEN syls
        ELSE IF is_convertable(syls, processor)
             THEN SelectSeq(syls, LAMBDA syl : syl.valid)
             ELSE <<>>
      texts_of(syls) == [k \in DOMAIN syls |-> syls[k].full_syllable]
  IN  [caches_after_process_text(caches, text, convert_from, config, id)
         EXCEPT !.converter =
                  converter_cache_after(
                    empty_cache(10000), convert_from, convert_to,
                    Concat([k \in DOMAIN words |->
                              texts_of(handed(words[k].syllables))]))]

\* the caches after segment_text, syllable_count or validator
caches_after_chunks(caches, text, m, config, kwargs) ==
  caches_after_process_text(caches, text, m,
                            config_info(config, kwargs, all_flags),
                            config_id(caches, config, kwargs, all_flags))

\* the caches after convert_text
caches_after_convert_text(caches, text, convert_from, convert_to, config, kwargs) ==
  caches_after_conversion(caches, text, convert_from, convert_to,
                          config_info(config, kwargs, all_flags),
                          config_id(caches, config, kwargs, all_flags),
                          stopword_list)



----------------------------------------------------------------------------
(* The letter-runs the engine is exercised on. *)

MaxLen == 4

MaxSyllables == 2

engine_letters == {"a", "e", "i", "n", "g", "h", "r"}

RECURSIVE strings_of_len(_, _)
strings_of_len(cs, n) ==
  IF n = 0 THEN {<<>>}
  ELSE {<<c>> \o s : c \in cs, s \in strings_of_len(cs, n - 1)}

short_runs == UNION {strings_of_len(engine_letters, n) : n \in 1..MaxLen}

sample_syllables(m) ==
  IF m = "py"
  THEN { <<"a">>, <<"a", "n">>, <<"a", "n", "g">>, <<"e">>, <<"e", "r">>,
         <<"n", "i">>, <<"l", "i">>, <<"l", "i", "n">>, <<"h", "a", "n">>,
         <<"h", "e">>, <<"r", "e">>, <<"c", "h", "a", "n">>,
         <<"c", "h", "a", "n", "g">>, <<"g", "a", "n">>,
         <<"p", "i", "n", "g">>, <<"l", "i", "a", "n", "g">> }
  ELSE { <<"a">>, <<"a", "n">>, <<"a", "n", "g">>, <<"e", "n">>,
         <<"e", "r", "h">>, <<"n", "i">>, <<"n", "i", "n">>, <<"l", "i">>,
         <<"l", "i", "n">>, <<"c", "h", "i">>, <<"c", "h", "i", "n">>,
         <<"c", "h", "i", "a">>, <<"h", "a">>, <<"h", "a", "n">>,
         <<"k", "a", "n">>, <<"p", "i", "n", "g">> }

RECURSIVE syllable_concats(_, _)
syllable_concats(m, n) ==
  IF n = 0 THEN {<<>>}
  ELSE {s \o t : s \in sample_syllables(m), t \in syllable_concats(m, n - 1)}

symbol_runs(m) ==
  {a \o <<s>> \o b : a \in sample_syllables(m), b \in sample_syllables(m),
                     s \in {"'", "rsquo", "-", "endash"}}

\* letter-runs of the test-suite, runs of the shapes of its 'anwei' and 'shiherh'
\* spelt with the initials of wg_init_list, and runs with upper-case letters
test_runs ==
  { <<"c", "h", "a", "n", "g", "a", "n">>,
    <<"l", "i", "n", "p", "'", "i", "n", "g">>,
    <<"l", "i", "n", "p", "rsquo", "i", "n", "g">>,
    <<"c", "h", "'", "a", "n", "k", "a", "n">>,
    <<"c", "h", "rsquo", "a", "n", "k", "a", "n">>,
    <<"c", "h", "i", "n", "i", "n">>,
    <<"l", "i", "n", "c", "h", "i", "h", "e", "r", "h">>,
    <<"a", "n", "n", "e", "i">>, <<"c", "h", "i", "h", "e", "r", "h">>,
    <<"a", "n", "n", "i", "h", "a", "n">>, <<"n", "i", "a">>,
    <<"C", "H", "A", "N", "G", "A", "N">>,
    <<"C", "h", "a", "n", "g", "a", "n">>,
    <<"c", "h", "a", "n", "G", "a", "n">>,
    <<"L", "I", "N", "P", "'", "I", "N", "G">>,
    <<"H", "E", "R", "E">>, <<"H", "e", "l", "p">>, <<"N", "I">> }

\* Wade-Giles runs whose second syllable has an aspirated initial
aspirated_syllables ==
  { <<"p", "'", "i", "n", "g">>, <<"c", "h", "'", "a", "n">>,
    <<"k", "'", "a", "n">> }

aspirated_runs(m) ==
  IF m = "wg"
  THEN {a \o b : a \in sample_syllables(m), b \in aspirated_syllables}
  ELSE {}

\* the spelling of a table pair: the initial, nothing for the sentinel of
\* a syllable without initial, followed by the final
pair_spelling(pair) ==
  (IF pair[1] = null_initial THEN <<>> ELSE pair[1]) \o pair[2]

\* every syllable the method's table marks valid
table_syllables(m) == {pair_spelling(pair) : pair \in ar(m)}

engine_inputs(m) ==
  short_runs \cup symbol_runs(m) \cup test_runs \cup aspirated_runs(m)
    \cup table_syllables(m)
    \cup UNION {syllable_concats(m, n) : n \in 1..MaxSyllables}

----------------------------------------------------------------------------
(* TextChunkProcessor._process_split_words, step by step, on one           *)
(* letter-run of _process_text.                                            *)

no_result == [done |-> FALSE]

EngineInit ==
  /\ \E m \in supported_method_names : \E segment \in engine_inputs(m) :
        /\ call = [op |-> "_process_split_words", method |-> m,
                   segment |-> segment]
        /\ split_word = _split_word(m, segment)
  /\ remaining_text = <<>>
  /\ syllables = <<>>
  /\ result = no_result
  /\ cache = new_caches

\* for syllable in split_words: remaining_text = syllable
NextSplitWord ==
  /\ call.op = "_process_split_words"
  /\ ~result.done
  /\ remaining_text = <<>>
  /\ split_word # <<>>
  /\ remaining_text' = Head(split_word)
  /\ split_word' = Tail(split_word)
  /\ UNCHANGED <<syllables, call, result, cache>>

\* syllables.append(syllable_obj); remaining_text = remainder
AppendSyllable(syllable_obj) ==
  /\ syllables' = Append(syllables, syllable_obj)
  /\ remaining_text' = syllable_obj.remainder

\* one turn of: while remaining_text.  The chunker is the first the
\* process has made; the Syllable comes from the cache of the class, which
\* keeps it.
ParseStep ==
  /\ call.op = "_process_split_words"
  /\ remaining_text # <<>>
  /\ LET key == cache_key(1, remaining_text)
         syllable_obj == _send_to_syllable_processor(call.method,
                                                     remaining_text)
     IN  /\ AppendSyllable(lru_cache_value(cache.chunker, key, syllable_obj))
         /\ cache' = [cache EXCEPT
                        !.chunker = lru_cache_after(@, key, syllable_obj)]
  /\ UNCHANGED <<split_word, call, result>>

\* self.chunks.append(syllables)
AppendChunk ==
  /\ call.op = "_process_split_words"
  /\ ~result.done
  /\ remaining_text = <<>>
  /\ split_word = <<>>
  /\ result' = [done |-> TRUE, value |-> syllables]
  /\ UNCHANGED <<split_word, remaining_text, syllables, call, cache>>

EngineNext == NextSplitWord \/ ParseStep \/ AppendChunk

SpecEngine == EngineInit /\ [][EngineNext]_vars

----------------------------------------------------------------------------
(* The public operations: one call, with its arguments, on a fresh        *)
(* process.                                                                *)

MaxWords == 2

\* single words: letter cases, apostrophes, dashes, contractions,
\* stopwords, English words and invalid runs
api_words ==
  { <<"n", "i">>, <<"N", "i">>, <<"N", "I">>, <<"l", "i">>,
    <<"c", "h", "a", "n", "g", "a", "n">>,
    <<"C", "h", "a", "n", "g", "a", "n">>,
    <<"C", "H", "A", "N", "G", "A", "N">>,
    <<"c", "h", "a", "n", "g", "'", "a", "n">>,
    <<"c", "h", "a", "n", "g", "rsquo", "a", "n">>,
    <<"L", "I", "N", "P", "I", "N", "G">>,
    <<"h", "e", "l", "p">>, <<"H", "e", "l", "p">>, <<"H", "E", "L", "P">>,
    <<"h", "E", "l", "p">>,
    <<"h", "e", "r", "e">>, <<"H", "e", "r", "e">>, <<"H", "E", "R", "E">>,
    <<"h", "e">>, <<"H", "E">>, <<"h", "E">>, <<"a", "n">>, <<"A", "N">>,
    <<"h", "e", "'", "l", "l">>, <<"h", "e", "rsquo", "l", "l">>,
    <<"l", "i", "'", "s">>, <<"L", "I", "'", "S">>,
    <<"l", "i", "-", "p", "a">>, <<"l", "i", "endash", "p", "a">>,
    <<"e", "i">>, <<"e", "r">>, <<"e", "r", "h">>, <<"g", "e">>,
    <<"c", "h", "'", "a", "n">>, <<"C", "H", "'", "A", "N">>,
    <<"c", "h", "'", "a", "n", "k", "a", "n">>,
    <<"l", "i", "n", "p", "'", "i", "n", "g">>,
    <<"l", "i", "n", "-", "p", "'", "i", "n", "g">>,
    <<"c", "h", "i", "n", "i", "n">>, <<"h", "a", "n", "h">>,
    <<"n", "u", "diaeresis">>, <<"n", "uuml">>,
    <<"n", "i", "-", "a", "n">>, <<"N", "I", "-", "A", "N">>,
    <<"N", "i", "-", "a", "n">>, <<"l", "i", "-", "n", "i">>,
    <<"l", "i", "n", "-", "a", "n">>, <<"L", "I", "N", "-", "A", "N">>,
    <<"n", "i", "l", "i", "'", "s">>, <<"n", "i", "'", "l", "l">> }

\* the words and separators texts of several words are made of
text_words ==
  { <<"n", "i">>, <<"L", "i">>, <<"h", "e", "l", "p">>,
    <<"H", "E", "R", "E">>, <<"c", "h", "a", "n", "g", "a", "n">>,
    <<"h", "e", "'", "l", "l">>, <<"c", "h", "'", "a", "n">> }

separators == { <<" ">>, <<",", " ">>, <<".">> }

RECURSIVE word_texts(_)
word_texts(n) ==
  IF n = 1 THEN text_words
  ELSE {w \o s \o t : w \in text_words, s \in separators,
                      t \in word_texts(n - 1)}

\* texts that begin or end with a non-letter span, or have no letters
edge_texts ==
  { <<>>, <<"1", "2">>, <<" ", "n", "i">>, <<"n", "i", "!">>,
    <<"(", "H", "E", "L", "P", ")">>, <<"n", "i", " ", " ", "l", "i", "\n">>,
    <<"Idot">>, <<"N", "i", " ", "Idot", "n">>, <<"i", "dotabove">>,
    <<"I", "dotabove">>, <<"N", "i", " ", "I", "dotabove", "n">>,
    <<"l", "a", "diaeresis", "n">>, <<"T", "diaeresis">>,
    <<"n", "i", "'", "a", "n", ",", " ", "l", "i", ".">> }

api_texts ==
  api_words \cup edge_texts \cup UNION {word_texts(n) : n \in 1..MaxWords}

\* the config argument and the keywords of a call
call_configs ==
  { <<c, {}>> : c \in { no_config,
                        config_object(FALSE, FALSE, FALSE),
                        config_object(FALSE, TRUE, FALSE),
                        config_object(TRUE, FALSE, FALSE),
                        config_object(FALSE, FALSE, TRUE),
                        config_object(TRUE, TRUE, FALSE) } }
  \cup { <<no_config, k>> : k \in { {<<"error_skip", TRUE>>},
                                    {<<"error_report", TRUE>>},
                                    {<<"crumbs", FALSE>>} } }
  \cup { <<config_object(FALSE, FALSE, FALSE), {<<"error_skip", TRUE>>}>> }

\* the calls: operation and arguments
api_calls ==
  { [op |-> "segment_text", text |-> text, method |-> m,
     config |-> c[1], kwargs |-> c[2]] :
       text \in api_texts, m \in supported_method_names, c \in call_configs }
  \cup
  { [op |-> "validator", text |-> text, method |-> m, per_word |-> per_word,
     config |-> c[1], kwargs |-> c[2]] :
       text \in api_texts, m \in supported_method_names,
       per_word \in BOOLEAN, c \in call_configs }
  \cup
  { [op |-> "syllable_count", text |-> text, method |-> m,
     config |-> c[1], kwargs |-> c[2]] :
       text \in api_texts, m \in supported_method_names, c \in call_configs }
  \cup
  { [op |-> "detect_method", text |-> text,
     config |-> c[1], kwargs |-> c[2]] :
       text \in api_texts, c \in call_configs }
  \cup
  { [op |-> op, text |-> text, convert_from |-> convert_from,
     convert_to |-> convert_to, config |-> c[1], kwargs |-> c[2]] :
       op \in {"convert_text", "cherry_pick"}, text \in api_texts,
       convert_from \in supported_method_names,
       convert_to \in supported_method_names, c \in call_configs }

Init ==
  /\ call \in api_calls
  /\ result = no_result
  /\ split_word = <<>>
  /\ remaining_text = <<>>
  /\ syllables = <<>>
  /\ cache = new_caches

SegmentText ==
  /\ call.op = "segment_text"
  /\ ~result.done
  /\ result' = segment_text(call.text, call.method, call.config, call.kwargs)
  /\ cache' = caches_after_chunks(cache, call.text, call.method, call.config,
                                call.kwargs)
  /\ UNCHANGED <<split_word, remaining_text, syllables, call>>

Validator ==
  /\ call.op = "validator"
  /\ ~result.done
  /\ result' = validator(call.text, call.method, call.per_word, call.config,
                         call.kwargs)
  /\ cache' = caches_after_chunks(cache, call.text, call.method, call.config,
                                call.kwargs)
  /\ UNCHANGED <<split_word, remaining_text, syllables, call>>

SyllableCount ==
  /\ call.op = "syllable_count"
  /\ ~result.done
  /\ result' = syllable_count(call.text, call.method, call.config, call.kwargs)
  /\ cache' = caches_after_chunks(cache, call.text, call.method, call.config,
                                call.kwargs)
  /\ UNCHANGED <<split_word, remaining_text, syllables, call>>

DetectMethod ==
  /\ call.op = "detect_method"
  /\ ~result.done
  /\ result' = detect_method(call.text, call.config, call.kwargs)
  /\ LET info == config_info(call.config, call.kwargs, all_flags)
         id == config_id(cache, call.config, call.kwargs, all_flags)
     IN  cache' = caches_after_process_text(
                    caches_after_process_text(cache, call.text, "py", info,
                                              id),
                    call.text, "wg", info, id)
  /\ UNCHANGED <<split_word, remaining_text, syllables, call>>

ConvertText ==
  /\ call.op = "convert_text"
  /\ ~result.done
  /\ result' = convert_text(call.text, call.convert_from, call.convert_to,
                            call.config, call.kwargs)
  /\ cache' = caches_after_convert_text(cache, call.text, call.convert_from,
                                      call.convert_to, call.config,
                                      call.kwargs)
  /\ UNCHANGED <<split_word, remaining_text, syllables, call>>

CherryPick ==
  /\ call.op = "cherry_pick"
  /\ ~result.done
  /\ result' = cherry_pick(call.text, call.convert_from, call.convert_to,
                           call.config, call.kwargs)
  /\ cache' = IF result'.raised # "" THEN cache
              ELSE caches_after_conversion(
                     cache, call.text, call.convert_from, call.convert_to,
                     cherry_pick_config_info(call.config, call.kwargs),
                     config_id(cache, call.config, call.kwargs,
                               {"crumbs", "error_report"}),
                     stopword_list)
  /\ UNCHANGED <<split_word, remaining_text, syllables, call>>

Next ==
  \/ SegmentText
  \/ Validator
  \/ SyllableCount
  \/ DetectMethod
  \/ ConvertText
  \/ CherryPick

Spec == Init /\ [][Next]_vars

----------------------------------------------------------------------------
(* The caches of a converter and of two chunkers, asked one text after the *)
(* other.                                                                  *)

\* the misses a cache is followed for
MaxMisses == 3

\* the texts a converter is asked for
convert_texts ==
  { <<"n", "i">>, <<"N", "I">>, <<"e", "i">>, <<"E", "i">>, <<"h", "e">>,
    <<"l", "p">>, <<"L", "P">>, <<"c", "h", "'", "a", "n">>, <<>> }

\* the texts a chunker sends to the syllable processor
syllable_texts ==
  { <<"n", "i">>, <<"N", "I">>, <<"c", "h", "a", "n">>,
    <<"n", "i", "a", "n">>, <<"l", "p">>, <<"'", "a", "n">> }

\* a call of an lru_cache wrapper, that of the chunkers or that of the
\* converter: value is what the wrapped function returns for these
\* arguments
lru_cache_call(wrapper, self, text, value) ==
  LET key == cache_key(self, text)
  IN  /\ key \in cached_keys(cache[wrapper])
           \/ cache[wrapper].misses < MaxMisses
      /\ result' = [done |-> TRUE, raised |-> "", self |-> self,
                    text |-> text,
                    hit |-> key \in cached_keys(cache[wrapper]),
                    value |-> lru_cache_value(cache[wrapper], key, value)]
      /\ cache' = [cache EXCEPT
                     ![wrapper] = lru_cache_after(@, key, value)]

CacheInit ==
  /\ call \in {[op |-> "RomanizationConverter", convert_from |-> f,
                 convert_to |-> t] :
                  f \in supported_method_names, t \in supported_method_names}
              \cup {[op |-> "TextChunkProcessor",
                     instances |-> <<"py", "wg">>]}
  /\ result = no_result
  /\ cache = new_caches
  /\ split_word = <<>>
  /\ remaining_text = <<>>
  /\ syllables = <<>>

\* RomanizationConverter.convert
ConverterConvert ==
  /\ call.op = "RomanizationConverter"
  /\ \E text \in convert_texts :
       lru_cache_call("converter", 0, text,
                      _cached_convert(call.convert_from, call.convert_to,
                                      text))
  /\ UNCHANGED <<split_word, remaining_text, syllables, call>>

\* TextChunkProcessor._send_to_syllable_processor
SendToSyllableProcessor ==
  /\ call.op = "TextChunkProcessor"
  /\ \E self \in DOMAIN call.instances : \E text \in syllable_texts :
       lru_cache_call("chunker", self, text,
                      create_syllable(call.instances[self], text))
  /\ UNCHANGED <<split_word, remaining_text, syllables, call>>

CacheNext == ConverterConvert \/ SendToSyllableProcessor

SpecCache == CacheInit /\ [][CacheNext]_vars

----------------------------------------------------------------------------
(* A session: calls of the public functions made one after the other with  *)
(* one Config object whose flags the caller sets between the calls, as     *)
(* main._cherry_pick_action does.  The key of the lru_cache of             *)
(* utils._process_text holds the Config object and not its flags.          *)
(* call.config is the object as it is now.                                 *)

\* the texts of the calls of a session; its conversions are into Wade-Giles
session_texts ==
  { <<"n", "i", " ", "l", "i">>, <<"n", "i", ",", " ", "h", "e", "l", "p">> }

\* the _process_text misses a session is followed for
MaxSessionMisses == 2

\* the chunks a public function of the session gets from _process_text for
\* its config_info, the Config object being the caller's when the function
\* passes it on under these flags
session_chunks(text, m, config, flags) ==
  cached_process_text(cache, text, m, config,
                      config_id(cache, call.config, {}, flags))

\* the calls of _process_text under these methods find their keys, or the
\* session has misses left for those that do not
session_can_process(text, methods, flags) ==
  LET id == config_id(cache, call.config, {}, flags)
      missed == {m \in methods :
                   process_text_key(text, m, id)
                     \notin cached_keys(cache.process_text)}
  IN  cache.process_text.misses + Cardinality(missed) <= MaxSessionMisses

session_returned(value, arguments) ==
  [done |-> TRUE, raised |-> "", value |-> value, arguments |-> arguments]

SessionInit ==
  /\ call \in {[op |-> "session",
                 config |-> config_object(crumbs, error_skip, error_report)] :
                  crumbs \in {FALSE}, error_skip \in BOOLEAN,
                  error_report \in BOOLEAN}
  /\ result = no_result
  /\ cache = new_caches
  /\ split_word = <<>>
  /\ remaining_text = <<>>
  /\ syllables = <<>>

\* the caller assigns a flag of the Config object: config.error_skip = True
SetFlag ==
  /\ call.op = "session"
  /\ \E flag \in {"error_skip", "error_report"} : \E value \in BOOLEAN :
       /\ call.config[flag] # value
       /\ call' = [call EXCEPT !.config[flag] = value]
  /\ UNCHANGED <<split_word, remaining_text, syllables, result, cache>>

\* segment_text(text, method, config)
SessionSegmentText ==
  /\ call.op = "session"
  /\ \E text \in session_texts : \E m \in supported_method_names :
       /\ session_can_process(text, {m}, all_flags)
       /\ result' = session_returned(
                      segmented_result(
                        session_chunks(text, m,
                                       config_info(call.config, {}, all_flags),
                                       all_flags)),
                      [op |-> "segment_text", text |-> text, method |-> m,
                       config |-> call.config, kwargs |-> {}])
       /\ cache' = caches_after_chunks(cache, text, m, call.config, {})
  /\ UNCHANGED <<split_word, remaining_text, syllables, call>>

\* validator(text, method, per_word, config)
SessionValidator ==
  /\ call.op = "session"
  /\ \E text \in session_texts : \E m \in supported_method_names :
     \E per_word \in BOOLEAN :
       /\ session_can_process(text, {m}, all_flags)
       /\ result' = session_returned(
                      validation_of(
                        session_chunks(text, m,
                                       config_info(call.config, {}, all_flags),
                                       all_flags),
                        per_word),
                      [op |-> "validator", text |-> text, method |-> m,
                       per_word |-> per_word, config |-> call.config,
                       kwargs |-> {}])
       /\ cache' = caches_after_chunks(cache, text, m, call.config, {})
  /\ UNCHANGED <<split_word, remaining_text, syllables, call>>

\* syllable_count(text, method, config)
SessionSyllableCount ==
  /\ call.op = "session"
  /\ \E text \in session_texts : \E m \in supported_method_names :
       /\ session_can_process(text, {m}, all_flags)
       /\ LET chunks == list_chunks(
                          session_chunks(
                            text, m, config_info(call.config, {}, all_flags),
                            all_flags))
          IN  result' = session_returned(
                          [k \in DOMAIN chunks |-> Len(chunks[k].syllables)],
                          [op |-> "syllable_count", text |-> text,
                           method |-> m, config |-> call.config,
                           kwargs |-> {}])
       /\ cache' = caches_after_chunks(cache, text, m, call.config, {})
  /\ UNCHANGED <<split_word, remaining_text, syllables, call>>

\* detect_method(text, config=config): _process_text under every method,
\* with one Config object
SessionDetectMethod ==
  /\ call.op = "session"
  /\ \E text \in session_texts :
       /\ session_can_process(text, {"py", "wg"}, all_flags)
       /\ LET info == config_info(call.config, {}, all_flags)
              id == config_id(cache, call.config, {}, all_flags)
              found(m) == syllable_chunks(
                            session_chunks(text, m, info, all_flags))
              fits(m) == found(m) # <<>> /\ all_valid(found(m))
          IN  /\ result' = session_returned(
                             SelectSeq(<<"py", "wg">>, fits),
                             [op |-> "detect_method", text |-> text,
                              config |-> call.config, kwargs |-> {}])
              /\ cache' = caches_after_process_text(
                            caches_after_process_text(cache, text, "py",
                                                      info, id),
                            text, "wg", info, id)
  /\ UNCHANGED <<split_word, remaining_text, syllables, call>>

\* convert_text(text, convert_from, convert_to, config)
SessionConvertText ==
  /\ call.op = "session"
  /\ \E text \in session_texts : \E convert_from \in supported_method_names :
       /\ session_can_process(text, {convert_from}, all_flags)
       /\ result' = session_returned(
                      str_join(<<" ">>,
                               concat_text(
                                 session_chunks(
                                   text, convert_from,
                                   config_info(call.config, {}, all_flags),
                                   all_flags),
                                 WordProcessor(
                                   config_info(call.config, {}, all_flags),
                                   convert_from, "wg", stopword_list))),
                      [op |-> "convert_text", text |-> text,
                       convert_from |-> convert_from, convert_to |-> "wg",
                       config |-> call.config, kwargs |-> {}])
       /\ cache' = caches_after_convert_text(cache, text, convert_from, "wg",
                                             call.config, {})
  /\ UNCHANGED <<split_word, remaining_text, syllables, call>>

\* cherry_pick(text, convert_from, convert_to, config): the Config object
\* is passed on when crumbs or error_report is set
SessionCherryPick ==
  /\ call.op = "session"
  /\ \E text \in session_texts : \E convert_from \in supported_method_names :
       /\ session_can_process(text, {convert_from},
                              {"crumbs", "error_report"})
       /\ LET info == cherry_pick_config_info(call.config, {})
          IN  /\ result' = session_returned(
                             Concat(concat_text(
                                      session_chunks(
                                        text, convert_from, info,
                                        {"crumbs", "error_report"}),
                                      WordProcessor(info, convert_from, "wg",
                                                    stopword_list))),
                             [op |-> "cherry_pick", text |-> text,
                              convert_from |-> convert_from,
                              convert_to |-> "wg", config |-> call.config,
                              kwargs |-> {}])
              /\ cache' = caches_after_conversion(
                            cache, text, convert_from, "wg", info,
                            config_id(cache, call.config, {},
                                      {"crumbs", "error_report"}),
                            stopword_list)
  /\ UNCHANGED <<split_word, remaining_text, syllables, call>>

SessionNext ==
  \/ SetFlag
  \/ SessionSegmentText
  \/ SessionValidator
  \/ SessionSyllableCount
  \/ SessionDetectMethod
  \/ SessionConvertText
  \/ SessionCherryPick

SpecSession == SessionInit /\ [][SessionNext]_vars

----------------------------------------------------------------------------
(* Properties of the segmentation engine, checked under SpecEngine.        *)

full_syllables(syls) == [k \in DOMAIN syls |-> syls[k].full_syllable]

all_syllables_valid(syls) == \A k \in DOMAIN syls : syls[k].valid

letters_only(text) == \A k \in DOMAIN text : text[k] \in regex_letters

RECURSIVE total_length(_)
total_length(texts) ==
  IF texts = <<>> THEN 0 ELSE Len(Head(texts)) + total_length(Tail(texts))

\* the spellings of the table-valid syllables of method m
valid_syllable_strings(m) ==
  {IF pair[1] = null_initial THEN pair[2] ELSE pair[1] \o pair[2] :
      pair \in ar(m)}

\* text is a concatenation of table-valid syllables of method m
RECURSIVE Decomposable(_, _)
Decomposable(m, text) ==
  \/ text = <<>>
  \/ \E k \in 1..Len(text) :
        /\ Take(text, k) \in valid_syllable_strings(m)
        /\ Decomposable(m, Drop(text, k))

\* C1: every parse step returns a non-empty full_syllable and a remainder
\* strictly shorter than the text it was given, and the syllables parsed so
\* far plus the characters still to parse never exceed the length of the
\* letter-run, so each sub-run of n characters yields at most n syllables.
C1_Progress ==
  /\ \A k \in DOMAIN syllables :
        /\ syllables[k].full_syllable # <<>>
        /\ Len(syllables[k].remainder) < Len(syllables[k].text)
  /\ Len(syllables) + Len(remaining_text) + total_length(split_word)
       <= Len(call.segment)

\* C1 witness: a run with an invalid syllable parsed to its end in several
\* steps
C1_Witness ==
  /\ result.done
  /\ Len(result.value) >= 2
  /\ ~all_syllables_valid(result.value)

\* the text a Pinyin syllable was parsed from, after its initial
text_after_initial(syl) == Drop(syl.text, Len(syl.initial))

\* C2: under Pinyin, when the text after the initial holds "n", "g" and a
\* vowel in a row and the initial with the final ending at that "n" is a
\* valid pair, the final ends at the "n" and the "g" opens the next
\* syllable; "changan" is parsed as chan, gan.
C2_NgTieBreak ==
  call.method = "py" =>
    /\ \A k \in DOMAIN syllables :
         LET syl == syllables[k]
             rest == text_after_initial(syl)
             table_initial == IF syl.initial = <<>> THEN null_initial
                              ELSE syl.initial
         IN  \A i \in 1..(Len(rest) - 2) :
                ( /\ rest[i] = "n"
                  /\ rest[i + 1] = "g"
                  /\ rest[i + 2] \in vowels
                  /\ <<table_initial, Take(rest, i)>> \in py_ar )
                => /\ syl.final = Take(rest, i)
                   /\ syl.remainder = Drop(rest, i)
                   /\ k < Len(syllables)
                        => syllables[k + 1].full_syllable[1] = "g"
    /\ (result.done /\ call.segment = <<"c", "h", "a", "n", "g", "a", "n">>)
         => full_syllables(result.value)
              = << <<"c", "h", "a", "n">>, <<"g", "a", "n">> >>

\* C2 witness: "changan" parsed to its end under Pinyin
C2_Witness ==
  /\ call.method = "py"
  /\ result.done
  /\ call.segment = <<"c", "h", "a", "n", "g", "a", "n">>
  /\ Len(result.value) = 2
  /\ result.value[2].full_syllable[1] = "g"

\* C3: under Wade-Giles a run without dashes made of a table-valid syllable
\* followed by a table-valid syllable with an aspirated initial, such as
\* "linp'ing" or "ch'ankan", is parsed as exactly these two syllables, both
\* valid.
C3_AspiratedSecondSyllable ==
  (call.method = "wg" /\ result.done) =>
    /\ \A a \in valid_syllable_strings("wg") :
       \A b \in aspirated_syllables \cap valid_syllable_strings("wg") :
          call.segment = a \o b
            => /\ full_syllables(result.value) = <<a, b>>
               /\ all_syllables_valid(result.value)
    /\ call.segment = <<"c", "h", "'", "a", "n", "k", "a", "n">>
         => /\ full_syllables(result.value)
                 = << <<"c", "h", "'", "a", "n">>, <<"k", "a", "n">> >>
            /\ all_syllables_valid(result.value)

\* C4 as stated: under Wade-Giles a run of letters that is a concatenation
\* of table-valid syllables is parsed into syllables that are all valid.
C4_AnyDecompositionRecovered ==
  ( /\ call.method = "wg"
    /\ result.done
    /\ letters_only(call.segment)
    /\ Decomposable("wg", str_lower(call.segment)) )
  => all_syllables_valid(result.value)

\* the consonants of text in front of its first vowel
RECURSIVE leading_consonants(_)
leading_consonants(text) ==
  IF text = <<>> \/ text[1] \in vowels THEN <<>>
  ELSE <<text[1]>> \o leading_consonants(Tail(text))

\* the cut positions of text that pass the one-step look-ahead: with
\* leading consonants, the ends of a final valid with them; without, the
\* ends (2 or more) of a valid vowel-initial syllable; in both cases the
\* rest has two characters or more and opens with a known initial or a vowel
feasible_cuts(text) ==
  LET head == leading_consonants(text)
      opens(rest) == /\ Len(rest) > 1
                     /\ \/ rest[1] \in vowels
                        \/ \E init \in wg_init_list \ {null_initial} :
                              startswith(rest, init)
  IN  IF head # <<>>
      THEN {e \in (Len(head) + 1)..(Len(text) - 1) :
               /\ <<head, SubSeq(text, Len(head) + 1, e)>> \in wg_ar
               /\ opens(Drop(text, e))}
      ELSE {e \in 2..(Len(text) - 1) :
               /\ <<null_initial, Take(text, e)>> \in wg_ar
               /\ opens(Drop(text, e))}

least(S) == CHOOSE e \in S : \A o \in S : e <= o

greatest(S) == CHOOSE e \in S : \A o \in S : o <= e

\* the ends of a first syllable that the one-step look-ahead admits for
\* text: the cut positions that pass it, and the end of text when text is a
\* table-valid syllable
admitted_ends(text) ==
  feasible_cuts(text)
    \cup (IF text \in valid_syllable_strings("wg") THEN {Len(text)} ELSE {})

\* the admitted end that is preferred: the longest for text with leading
\* consonants, the shortest for text that begins with a vowel
preferred_end(text) ==
  IF leading_consonants(text) # <<>> THEN greatest(admitted_ends(text))
  ELSE least(admitted_ends(text))

\* the decompositions of text (one at most) in which every syllable ends
\* at the preferred admitted end of the text it begins
RECURSIVE preferred_decompositions(_)
preferred_decompositions(text) ==
  IF text = <<>> THEN {<<>>}
  ELSE IF admitted_ends(text) = {} THEN {}
  ELSE {<<Take(text, preferred_end(text))>> \o rest :
          rest \in preferred_decompositions(
                     Drop(text, preferred_end(text)))}

\* C4 amended: under Wade-Giles a run of letters is parsed into syllables
\* that are all valid exactly when it has a decomposition into table-valid
\* syllables in which every syllable is the preferred one among those the
\* one-step look-ahead admits (a valid syllable that ends the text or
\* leaves two characters or more opening with a known initial or a vowel;
\* the longest after leading consonants, the shortest of two characters or
\* more at a vowel), and the syllables parsed are then that decomposition,
\* whatever the number of syllables and whether they begin with an initial
\* or a vowel.
C4_PreferredDecompositionRecovered ==
  (call.method = "wg" /\ result.done /\ letters_only(call.segment)) =>
    LET text == str_lower(call.segment) IN
      /\ all_syllables_valid(result.value)
           <=> preferred_decompositions(text) # {}
      /\ all_syllables_valid(result.value)
           => full_syllables(result.value) \in preferred_decompositions(text)

\* C4 witness: "linchiherh" is parsed as lin, chih, erh: three syllables,
\* the last beginning with a vowel, and "chi" + "herh" passed over for the
\* longer "chih"
C4_Witness ==
  /\ call.method = "wg"
  /\ result.done
  /\ call.segment = <<"l", "i", "n", "c", "h", "i", "h", "e", "r", "h">>
  /\ 3 \in feasible_cuts(<<"c", "h", "i", "h", "e", "r", "h">>)
  /\ full_syllables(result.value)
       = << <<"l", "i", "n">>, <<"c", "h", "i", "h">>, <<"e", "r", "h">> >>
  /\ all_syllables_valid(result.value)

\* C5 as stated: under Wade-Giles a run of letters with no split into
\* table-valid syllables is returned as one invalid syllable spelling the
\* whole run.
C5_UndecomposableIsOnePiece ==
  ( /\ call.method = "wg"
    /\ result.done
    /\ letters_only(call.segment)
    /\ ~Decomposable("wg", str_lower(call.segment)) )
  => /\ Len(result.value) = 1
     /\ result.value[1].full_syllable = str_lower(call.segment)
     /\ ~result.value[1].valid

\* C5 amended: under Wade-Giles a run of letters is returned as one invalid
\* syllable spelling the whole run exactly when the run is not a table-valid
\* syllable and no cut position passes the one-step look-ahead; a run with
\* such a position is cut there even if it has no split into valid
\* syllables.
C5_NoFeasibleCutIsOnePiece ==
  (call.method = "wg" /\ result.done /\ letters_only(call.segment)) =>
    LET text == str_lower(call.segment) IN
    ( /\ text \notin valid_syllable_strings("wg")
      /\ feasible_cuts(text) = {} )
    <=> /\ Len(result.value) = 1
        /\ result.value[1].full_syllable = text
        /\ ~result.value[1].valid

\* C5 witness: "ani" has no cut position of two or more characters that
\* passes, and is returned whole and invalid
C5_Witness ==
  /\ call.method = "wg"
  /\ result.done
  /\ call.segment = <<"a", "n", "i">>
  /\ feasible_cuts(call.segment) = {}
  /\ full_syllables(result.value) = << <<"a", "n", "i">> >>
  /\ ~result.value[1].valid

----------------------------------------------------------------------------
(* Properties of the public operations, checked under Spec.                *)

\* the configuration the call's operation works with
working_config ==
  IF call.op = "cherry_pick"
  THEN cherry_pick_config_info(call.config, call.kwargs)
  ELSE config_info(call.config, call.kwargs, all_flags)

\* the method the call's text is analysed under
source_method ==
  IF call.op \in {"convert_text", "cherry_pick"} THEN call.convert_from
  ELSE call.method

\* the words of the call's text: the syllable lists of its letter-runs
call_words ==
  list_chunks(_process_text(call.text, source_method, working_config))

call_word_processor ==
  WordProcessor(working_config, call.convert_from, call.convert_to,
                stopword_list)

\* C6: syllable_count returns one integer per word: the number of
\* syllables of a word whose syllables are all valid, 0 for a word with an
\* invalid syllable.
C6_CountOrZero ==
  (call.op = "syllable_count" /\ result.done) =>
    result.value = [k \in DOMAIN call_words |->
                      IF all_valid(call_words[k].syllables)
                      THEN Len(call_words[k].syllables) ELSE 0]

\* C7: cherry_pick returns a text in which no word passes the
\* convertibility test unchanged, character for character, whatever the
\* letter case of its words and the source method.
C7_NoConvertibleWordUnchanged ==
  ( /\ call.op = "cherry_pick"
    /\ result.done /\ result.raised = ""
    /\ \A k \in DOMAIN call_words :
          ~is_convertable(call_words[k].syllables, call_word_processor) )
  => result.value = call.text

\* the maximal spans of text outside its words, in order
non_letter_spans(text) ==
  SelectSeq(_split_text_into_segments(text, TRUE),
            LAMBDA segment : segment[1] \notin regex_letters)

\* the spans occur in text one after the other
RECURSIVE contains_in_order(_, _)
contains_in_order(text, spans) ==
  \/ spans = <<>>
  \/ \E k \in 0..(Len(text) - Len(Head(spans))) :
        /\ SubSeq(text, k + 1, k + Len(Head(spans))) = Head(spans)
        /\ contains_in_order(Drop(text, k + Len(Head(spans))), Tail(spans))

\* C8: for every call of cherry_pick (default configuration, keywords, or
\* any Config object) every maximal non-letter span of the input appears
\* unchanged, in its place, in the output.
C8_SpansPreserved ==
  (call.op = "cherry_pick" /\ result.done /\ result.raised = "")
  => contains_in_order(result.value, non_letter_spans(call.text))

\* C9: cherry_pick leaves a word alone whose syllables are all valid and
\* whose preview spelling is a stopword: same syllables, no separator
\* added, the letter case of the input.
C9_StopwordUntouched ==
  ( /\ call.op = "cherry_pick"
    /\ result.done /\ result.raised = ""
    /\ working_config.error_skip
    /\ call_words # <<>>
    /\ \A k \in DOMAIN call_words :
          /\ all_valid(call_words[k].syllables)
          /\ _create_preview_word(call_words[k].syllables) \in stopword_list )
  => result.value = call.text

\* C10: converting a convertible word written in upper case gives output
\* whose syllables are all upper-cased: every syllable of the word carries
\* the uppercase flag.
C10_UppercaseWordStaysUppercase ==
  ( /\ call.op \in {"convert_text", "cherry_pick"}
    /\ result.done /\ result.raised = ""
    /\ call.text # <<>>
    /\ letters_only(call.text)
    /\ str_isupper(call.text)
    /\ is_convertable(call_words[1].syllables, call_word_processor) )
  => /\ \A j \in DOMAIN call_words[1].syllables :
           call_words[1].syllables[j].uppercase
     /\ result.value = str_upper(result.value)

\* the texts of a word's output syllables: converted, then capitalized
output_syllables(syls, processor) ==
  [k \in DOMAIN syls |-> apply_caps(convert(syls, processor))[k].text]

\* the last syllable is a contraction suffix kept from the input
trailing_contraction(syls) ==
  /\ ~syls[Len(syls)].valid
  /\ syls[Len(syls)].has_apostrophe
  /\ syls[Len(syls)].full_syllable \in supported_contractions

\* texts joined by dashes, the last one by an apostrophe when it is a
\* contraction suffix
dash_joined(texts, contraction) ==
  IF Len(texts) = 1 THEN texts[1]
  ELSE str_join(<<"-">>, SubSeq(texts, 1, Len(texts) - 1))
         \o (IF contraction THEN <<"'">> ELSE <<"-">>)
         \o texts[Len(texts)]

\* the chunks of the call's text
call_chunks == _process_text(call.text, source_method, working_config)

\* the texts of a conversion's chunks put together as the operation does
joined_chunks(texts) ==
  IF call.op = "convert_text" THEN str_join(<<" ">>, texts)
  ELSE Concat(texts)

\* C11: when a word passes the convertibility test and the target is
\* Wade-Giles, the word is output as its output syllables with exactly one
\* dash between every two neighbours, except that a kept trailing contraction
\* suffix is joined by an apostrophe.
C11_DashAtEveryBoundary ==
  ( /\ call.op \in {"convert_text", "cherry_pick"}
    /\ result.done /\ result.raised = ""
    /\ call.convert_to = "wg" )
  => result.value =
       joined_chunks(
         [k \in DOMAIN call_chunks |->
            IF ~call_chunks[k].is_list THEN call_chunks[k].text
            ELSE IF is_convertable(call_chunks[k].syllables,
                                   call_word_processor)
                 THEN dash_joined(
                        output_syllables(call_chunks[k].syllables,
                                         call_word_processor),
                        trailing_contraction(call_chunks[k].syllables))
                 ELSE process_syllables(call_chunks[k].syllables,
                                        call_word_processor)])

\* a converted word of three syllables whose last is a contraction suffix:
\* dashes and the apostrophe both occur
C11_Witness ==
  /\ call.op = "cherry_pick" /\ result.done /\ result.raised = ""
  /\ call.convert_to = "wg"
  /\ \E k \in DOMAIN call_words :
        /\ is_convertable(call_words[k].syllables, call_word_processor)
        /\ Len(call_words[k].syllables) = 3
        /\ trailing_contraction(call_words[k].syllables)
  /\ result.value = <<"n", "i", "-", "l", "i", "'", "s">>

\* the boundary between two output syllables is ambiguous without an
\* apostrophe: the previous one ends in a vowel, er, n or ng and the next one
\* begins with a vowel, in any letter case
ambiguous_boundary(prev_syllable, curr_syllable) ==
  LET prev == str_lower(prev_syllable)
      curr == str_lower(curr_syllable)
  IN  /\ curr[1] \in vowels
      /\ \/ prev[Len(prev)] \in vowels
         \/ prev[Len(prev)] = "n"
         \/ endswith(prev, <<"e", "r">>)
         \/ endswith(prev, <<"n", "g">>)

\* texts joined with an apostrophe at the ambiguous boundaries only
apostrophe_joined(texts) ==
  Concat([k \in DOMAIN texts |->
            IF k > 1 /\ ambiguous_boundary(texts[k - 1], texts[k])
            THEN <<"'">> \o texts[k] ELSE texts[k]])

\* C12: a word converted into Pinyin is output as its converted syllables
\* with an apostrophe exactly at the boundaries where the previous syllable
\* ends in a vowel, er, n or ng and the next begins with a vowel, whatever
\* the letter case of the syllables; nothing is put at the other boundaries.
C12_ApostropheAtAmbiguousBoundary ==
  ( /\ call.op \in {"convert_text", "cherry_pick"}
    /\ result.done /\ result.raised = ""
    /\ call.convert_to = "py" )
  => result.value =
       joined_chunks(
         [k \in DOMAIN call_chunks |->
            IF ~call_chunks[k].is_list THEN call_chunks[k].text
            ELSE IF /\ is_convertable(call_chunks[k].syllables,
                                      call_word_processor)
                    /\ all_valid(call_chunks[k].syllables)
                 THEN apostrophe_joined(
                        output_syllables(call_chunks[k].syllables,
                                         call_word_processor))
                 ELSE process_syllables(call_chunks[k].syllables,
                                        call_word_processor)])

\* the spelling of a syllable without a leading apostrophe
bare_spelling(syl) ==
  IF syl.full_syllable # <<>> /\ syl.full_syllable[1] \in apostrophes
  THEN Tail(syl.full_syllable) ELSE syl.full_syllable

\* the lower-cased spelling of a word with its apostrophes and dashes
word_spelling(syls) ==
  Concat([k \in DOMAIN syls |->
            IF syls[k].has_apostrophe THEN <<"'">> \o bare_spelling(syls[k])
            ELSE IF syls[k].has_dash THEN <<"-">> \o syls[k].full_syllable
            ELSE syls[k].full_syllable])

\* a word whose syllables are valid except a last one that carries a leading
\* apostrophe and is spelled as a contraction suffix
contraction_word(syls) ==
  /\ Len(syls) > 1
  /\ \A k \in 1..(Len(syls) - 1) : syls[k].valid
  /\ ~syls[Len(syls)].valid
  /\ syls[Len(syls)].has_apostrophe
  /\ bare_spelling(syls[Len(syls)]) \in supported_contractions

\* the output syllables of a contraction word: the valid syllables through
\* the converter, the suffix as it is spelled, each in its letter case
contraction_output(syls) ==
  [k \in DOMAIN syls |->
     Syllable_apply_caps(
       syls[k],
       IF k < Len(syls)
       THEN converter_convert(call.convert_from, call.convert_to,
                              syls[k].full_syllable)
       ELSE bare_spelling(syls[k]))]

\* the converted contraction word: the separators of the target method
\* between the converted syllables, an apostrophe before the suffix
converted_contraction(syls) ==
  IF call.convert_to = "wg"
  THEN dash_joined(contraction_output(syls), TRUE)
  ELSE apostrophe_joined(SubSeq(contraction_output(syls), 1, Len(syls) - 1))
         \o <<"'">> \o contraction_output(syls)[Len(syls)]

\* C13: in cherry_pick, under either source method, a word that is not a
\* stopword and whose syllables are valid except a trailing contraction
\* suffix (s, d, ll, with its apostrophe) is converted: the valid syllables
\* go through the converter, the suffix is output as it is spelled, and
\* there is no error marker.
C13_ContractionConverted ==
  ( /\ call.op = "cherry_pick"
    /\ result.done /\ result.raised = ""
    /\ working_config.error_skip )
  => result.value =
       joined_chunks(
         [k \in DOMAIN call_chunks |->
            IF ~call_chunks[k].is_list THEN call_chunks[k].text
            ELSE IF /\ contraction_word(call_chunks[k].syllables)
                    /\ word_spelling(call_chunks[k].syllables)
                         \notin stopword_list
                 THEN converted_contraction(call_chunks[k].syllables)
                 ELSE process_syllables(call_chunks[k].syllables,
                                        call_word_processor)])

\* what validator returns for the call's text and method with per_word set
per_word_validation ==
  validator(call.text, call.method, TRUE, call.config, call.kwargs).value

\* the segmentation of the words of the call's text: segment_text's lists
word_segmentations ==
  SelectSeq(segment_text(call.text, call.method, call.config,
                         call.kwargs).value,
            LAMBDA chunk : chunk.is_list)

\* C14: validator without per_word returns True exactly when every syllable
\* of every word of the text is valid, which is exactly when every valid
\* list of the per_word result holds only True; the per_word result has one
\* entry per word, with the word's segmentation as syllables and their
\* concatenation as word.
C14_ValidatorAgreesWithPerWord ==
  (call.op = "validator" /\ result.done) =>
    IF ~call.per_word
    THEN /\ result.value =
              (\A k \in DOMAIN call_words : all_valid(call_words[k].syllables))
         /\ result.value =
              (\A k \in DOMAIN per_word_validation :
                 \A j \in DOMAIN per_word_validation[k].valid :
                    per_word_validation[k].valid[j])
    ELSE /\ Len(result.value) = Len(word_segmentations)
         /\ \A k \in DOMAIN result.value :
               /\ result.value[k].syllables = word_segmentations[k].syllables
               /\ result.value[k].word = Concat(result.value[k].syllables)
               /\ DOMAIN result.value[k].valid
                    = DOMAIN result.value[k].syllables

\* a text of several words, one entirely valid and one not, is rejected
C14_Witness ==
  /\ call.op = "validator" /\ result.done /\ ~call.per_word
  /\ Len(call_words) >= 2
  /\ \E k \in DOMAIN call_words : all_valid(call_words[k].syllables)
  /\ \E k \in DOMAIN call_words : ~all_valid(call_words[k].syllables)
  /\ result.value = FALSE

\* the methods a detect_method call returned
listed_methods == {result.value[k] : k \in DOMAIN result.value}

\* validator(text, m) of the call's text
validates_under(m) ==
  validator(call.text, m, FALSE, call.config, call.kwargs).value

\* the call's text has at least one word
has_words ==
  syllable_count(call.text, "py", call.config, call.kwargs).value # <<>>

\* C15 as stated: for every text and every known method m, detect_method
\* lists m if and only if validator(text, m) returns True.
C15_DetectedIffValidates ==
  (call.op = "detect_method" /\ result.done) =>
    \A m \in supported_method_names :
       (m \in listed_methods) <=> validates_under(m)

\* C15, amended: for every text that has at least one word, detect_method
\* lists m if and only if validator(text, m) returns True; for a text
\* without words detect_method lists no method.
C15_DetectedIffWordsValidate ==
  (call.op = "detect_method" /\ result.done) =>
    \A m \in supported_method_names :
       (m \in listed_methods) <=> (has_words /\ validates_under(m))

\* a text with words that one method accepts and the other rejects
C15_Witness ==
  /\ call.op = "detect_method" /\ result.done
  /\ has_words
  /\ result.value = <<"py">>
  /\ ~validates_under("wg")

\* segment_text's result with its non-word chunks lower-cased
lower_cased_chunks(chunks) ==
  [k \in DOMAIN chunks |->
     IF chunks[k].is_list THEN chunks[k]
     ELSE [chunks[k] EXCEPT !.text = str_lower(chunks[k].text)]]

\* what segment_text returns for the lower-cased text of the call
segmentation_of_lowered ==
  segment_text(str_lower(call.text), call.method, call.config,
               call.kwargs).value

\* C16 as stated: for every text and method, segment_text returns the same
\* lower-case syllable spellings, in the same chunks, as segment_text of the
\* lower-cased text.
C16_SegmentationIgnoresCase ==
  (call.op = "segment_text" /\ result.done) =>
    lower_cased_chunks(result.value) = segmentation_of_lowered

\* lower-casing leaves every character outside the word pattern outside it
lowering_keeps_non_letters(text) ==
  \A k \in DOMAIN text :
     text[k] \notin regex_letters =>
       \A j \in DOMAIN char_lower(text[k]) :
          char_lower(text[k])[j] \notin regex_letters

\* lower-casing the text and composing it (NFC) give the same text in
\* either order
lowering_commutes_with_NFC(text) ==
  normalize_NFC(str_lower(text)) = str_lower(normalize_NFC(text))

\* C16, amended: the same, for every text whose composed (NFC) form has no
\* character outside the word pattern that lower-casing turns into a
\* letter of the pattern, and on which lower-casing and composing give the
\* same text in either order.
C16_SegmentationIgnoresLetterCase ==
  ( /\ call.op = "segment_text" /\ result.done
    /\ lowering_keeps_non_letters(normalize_NFC(call.text))
    /\ lowering_commutes_with_NFC(call.text) )
  => lower_cased_chunks(result.value) = segmentation_of_lowered

\* a text of several syllables with upper-case letters has been segmented
C16_Witness ==
  /\ call.op = "segment_text" /\ result.done
  /\ call.text # str_lower(call.text)
  /\ \E k \in DOMAIN result.value :
        /\ result.value[k].is_list
        /\ Len(result.value[k].syllables) >= 2
  /\ lower_cased_chunks(result.value) = segmentation_of_lowered

----------------------------------------------------------------------------
(* Properties of the engine on the syllables of the tables, checked under  *)
(* SpecEngine.                                                             *)

\* C17: for every (initial, final) pair the method's table marks valid,
\* parsing the text initial + final (nothing for the no-initial sentinel,
\* nothing after the final) yields that initial and that final, an empty
\* remainder and valid = True.
C17_RoundTripOnTablePairs ==
  \A pair \in ar(call.method) :
     (call.segment = pair_spelling(pair) /\ Len(syllables) >= 1) =>
        /\ syllables[1].initial
             = (IF pair[1] = null_initial THEN <<>> ELSE pair[1])
        /\ syllables[1].final = pair[2]
        /\ syllables[1].remainder = <<>>
        /\ syllables[1].valid

\* a table syllable with an aspirated initial and a final of three letters or
\* more has been parsed into its parts
C17_Witness ==
  /\ call.method = "wg"
  /\ Len(syllables) = 1
  /\ \E pair \in ar("wg") :
        /\ call.segment = pair_spelling(pair)
        /\ pair[1][Len(pair[1])] = "'"
        /\ Len(pair[2]) >= 3
        /\ syllables[1].initial = pair[1]
        /\ syllables[1].final = pair[2]
  /\ syllables[1].valid

\* the initial as the tables name it
table_initial(syl) == IF syl.initial = <<>> THEN null_initial ELSE syl.initial

\* the search of the Pinyin final of syl went over vowels up to position p
\* of the text after the initial, where it met an "n" followed by "g"
ng_met(syl, p) ==
  LET rest == text_after_initial(syl)
  IN  /\ p + 1 <= Len(rest)
      /\ rest[p] = "n"
      /\ rest[p + 1] = "g"
      /\ \A j \in 1..(p - 1) :
           /\ rest[j] \in vowels
           /\ handle_vowel_case("py", rest, j - 1, table_initial(syl)) = None

\* the character two positions after the "n" is not a vowel
no_vowel_after_ng(rest, p) == p + 2 > Len(rest) \/ rest[p + 2] \notin vowels

n_final_invalid(syl, p) ==
  <<table_initial(syl), Take(text_after_initial(syl), p)>> \notin py_ar

\* the final of syl ends with the "ng" when keep_ng, at the "n" otherwise
final_ends(syl, p, keep_ng) ==
  syl.final = Take(text_after_initial(syl), IF keep_ng THEN p + 1 ELSE p)

parsed_pinyin_syllables ==
  IF call.method = "py" THEN {syllables[k] : k \in DOMAIN syllables} ELSE {}

\* C20 as stated: under Pinyin, at an "n" followed by "g", the final ends
\* with "ng" when exactly one character remains after the "ng", or the
\* character two positions after the "n" is not a vowel, or the final ending
\* at "n" is not valid with the initial; otherwise it ends at the "n".
C20_NgWhenOneCharacterRemains ==
  \A syl \in parsed_pinyin_syllables :
    \A p \in DOMAIN text_after_initial(syl) :
      ng_met(syl, p) =>
        final_ends(syl, p,
                   \/ Len(text_after_initial(syl)) - (p + 1) = 1
                   \/ no_vowel_after_ng(text_after_initial(syl), p)
                   \/ n_final_invalid(syl, p))

\* C20 amended: under Pinyin, at an "n" followed by "g", the final ends
\* with "ng" when the "g" is the last character of the text, or the
\* character two positions after the "n" is not a vowel, or the final ending
\* at "n" is not valid with the initial; otherwise it ends at the "n".
C20_NgWhenGIsLast ==
  \A syl \in parsed_pinyin_syllables :
    \A p \in DOMAIN text_after_initial(syl) :
      ng_met(syl, p) =>
        final_ends(syl, p,
                   \/ Len(text_after_initial(syl)) - (p + 1) = 0
                   \/ (/\ p + 2 <= Len(text_after_initial(syl))
                       /\ text_after_initial(syl)[p + 2] \notin vowels)
                   \/ n_final_invalid(syl, p))

\* C20 witness: a parsed syllable whose text ends with "ng", with a valid
\* final ending at the "n", that kept the "ng"
C20_Witness ==
  /\ call.method = "py"
  /\ result.done
  /\ \E syl \in parsed_pinyin_syllables :
       \E p \in DOMAIN text_after_initial(syl) :
         /\ ng_met(syl, p)
         /\ ~n_final_invalid(syl, p)
         /\ Len(text_after_initial(syl)) = p + 1
         /\ final_ends(syl, p, TRUE)

\* the search of the Pinyin final of syl went over vowels up to position p
\* of the text after the initial, where it met an "n" not followed by "g"
n_met(syl, p) ==
  LET rest == text_after_initial(syl)
  IN  /\ p <= Len(rest)
      /\ rest[p] = "n"
      /\ (p < Len(rest) => rest[p + 1] # "g")
      /\ \A j \in 1..(p - 1) :
           /\ rest[j] \in vowels
           /\ handle_vowel_case("py", rest, j - 1, table_initial(syl)) = None

\* a vowel follows the "n" and the final without the "n" is valid with the
\* initial
n_opens_next(syl, p) ==
  LET rest == text_after_initial(syl)
  IN  /\ p < Len(rest)
      /\ rest[p + 1] \in vowels
      /\ <<table_initial(syl), Take(rest, p - 1)>> \in py_ar

\* C21: under Pinyin, at an "n" not followed by "g", the final ends after
\* the "n", unless a vowel follows and the final without the "n" is valid
\* with the initial: then the final ends before the "n" and the remainder
\* begins with the "n".
C21_NWithoutG ==
  \A syl \in parsed_pinyin_syllables :
    \A p \in DOMAIN text_after_initial(syl) :
      n_met(syl, p) =>
        IF n_opens_next(syl, p)
        THEN /\ syl.final = Take(text_after_initial(syl), p - 1)
             /\ syl.remainder = Drop(text_after_initial(syl), p - 1)
             /\ syl.remainder[1] = "n"
        ELSE /\ syl.final = Take(text_after_initial(syl), p)
             /\ syl.remainder = Drop(text_after_initial(syl), p)

\* C21 witness: a run parsed to its end with a syllable that left its "n"
\* to the next one, which begins with it
C21_Witness ==
  /\ call.method = "py"
  /\ result.done
  /\ \E k \in 1..(Len(result.value) - 1) :
       \E p \in DOMAIN text_after_initial(result.value[k]) :
         /\ n_met(result.value[k], p)
         /\ n_opens_next(result.value[k], p)
         /\ result.value[k + 1].full_syllable[1] = "n"
         /\ result.value[k + 1].valid

\* the finals of the Pinyin table that start with the first j characters
\* of the text after the initial of syl and are valid with its initial
table_finals_from(syl, j) ==
  {f \in fin_list("py") :
     /\ startswith(f, Take(text_after_initial(syl), j))
     /\ <<table_initial(syl), f>> \in py_ar}

\* the search of the Pinyin final of syl came to the vowel at position j of
\* the text after the initial: before it are vowels only, none the last
\* character, each with a final of the table to go on with or at the front
vowel_met(syl, j) ==
  LET rest == text_after_initial(syl)
  IN  /\ j <= Len(rest)
      /\ rest[j] \in vowels
      /\ \A k \in 1..(j - 1) :
           /\ rest[k] \in vowels
           /\ (k = 1 \/ table_finals_from(syl, k) # {})

\* C22: under Pinyin, a vowel that is the last character makes the whole
\* text the final; at a vowel that is not the last character and with which
\* no valid final of the table starts, the final is the text before the
\* vowel when the vowel is not at the front, and at the front the search
\* goes on, so the final holds that vowel.
C22_BackOffAtRejectedVowel ==
  \A syl \in parsed_pinyin_syllables :
    \A j \in DOMAIN text_after_initial(syl) :
      vowel_met(syl, j) =>
        /\ j = Len(text_after_initial(syl))
             => syl.final = text_after_initial(syl)
        /\ (j < Len(text_after_initial(syl))
              /\ table_finals_from(syl, j) = {})
             => IF j > 1
                THEN syl.final = Take(text_after_initial(syl), j - 1)
                ELSE /\ Len(syl.final) >= 1
                     /\ syl.final = Take(text_after_initial(syl),
                                         Len(syl.final))
                     /\ syl.final
                          = PinyinStrategy_find_final_from(
                              text_after_initial(syl), 1, table_initial(syl))

\* C22 witness: a run parsed to its end with a syllable cut before a
\* rejected vowel that is not at the front, as "ziang" is cut after "zi"
C22_Witness ==
  /\ call.method = "py"
  /\ result.done
  /\ \E k \in DOMAIN result.value :
       \E j \in 2..(Len(text_after_initial(result.value[k])) - 1) :
         /\ vowel_met(result.value[k], j)
         /\ table_finals_from(result.value[k], j) = {}
         /\ result.value[k].final
              = Take(text_after_initial(result.value[k]), j - 1)
         /\ result.value[k].valid

\* the Wade-Giles syllables parsed from text without apostrophes
parsed_wg_syllables ==
  IF call.method = "wg"
  THEN {syllables[k] : k \in {i \in DOMAIN syllables :
                                letters_only(syllables[i].text)}}
  ELSE {}

\* rest can begin a syllable: two characters or more, opening with a known
\* initial or a vowel
can_begin_syllable(rest) ==
  /\ Len(rest) > 1
  /\ \/ rest[1] \in vowels
     \/ \E init \in wg_init_list \ {null_initial} : startswith(rest, init)

\* the lengths from 2 up at which text has a prefix that is a table-valid
\* syllable followed by nothing or by a suffix that can begin a syllable
qualifying_lengths(text) ==
  {n \in 2..Len(text) :
     /\ Take(text, n) \in valid_syllable_strings("wg")
     /\ (n = Len(text) \/ can_begin_syllable(Drop(text, n)))}

\* the ends of the finals valid with the leading consonants of text that
\* leave a suffix that can begin a syllable
qualifying_final_ends(text) ==
  {e \in (Len(leading_consonants(text)) + 1)..(Len(text) - 1) :
     /\ <<leading_consonants(text),
          SubSeq(text, Len(leading_consonants(text)) + 1, e)>> \in wg_ar
     /\ can_begin_syllable(Drop(text, e))}

\* C23 as stated: under Wade-Giles, on text without separators, the
\* syllable taken is the shortest prefix of two characters or more that is
\* a valid syllable and leaves a suffix that can begin a syllable, for text
\* that begins with an initial and for text that begins with a vowel.
C23_ShortestPrefixAccepted ==
  \A syl \in parsed_wg_syllables :
    qualifying_lengths(syl.text) # {}
      => Len(syl.full_syllable) = least(qualifying_lengths(syl.text))

\* C23 amended: text that begins with a vowel gets the shortest qualifying
\* prefix of two characters or more; text that begins with consonants is
\* taken whole when the rest is a final valid with them, and otherwise gets
\* the longest final valid with them that leaves a suffix that can begin a
\* syllable; with no such prefix or final the whole text is taken.
C23_ShortestForVowelLongestAfterInitial ==
  \A syl \in parsed_wg_syllables :
    /\ syl.full_syllable = Take(syl.text, Len(syl.full_syllable))
    /\ Len(syl.full_syllable)
         = IF leading_consonants(syl.text) = <<>>
           THEN (IF qualifying_lengths(syl.text) # {}
                 THEN least(qualifying_lengths(syl.text))
                 ELSE Len(syl.text))
           ELSE IF \/ <<leading_consonants(syl.text),
                        Drop(syl.text, Len(leading_consonants(syl.text)))>>
                         \in wg_ar
                   \/ qualifying_final_ends(syl.text) = {}
                THEN Len(syl.text)
                ELSE greatest(qualifying_final_ends(syl.text))

\* C23 witness: a run parsed to its end whose first syllable had two
\* qualifying finals after its initial and took the longer one, as
\* "chinin" gives "chin"
C23_Witness ==
  /\ call.method = "wg"
  /\ result.done
  /\ Len(result.value) >= 2
  /\ letters_only(result.value[1].text)
  /\ leading_consonants(result.value[1].text) # <<>>
  /\ \E a, b \in qualifying_final_ends(result.value[1].text) :
       /\ a < b
       /\ Len(result.value[1].full_syllable) = b
  /\ result.value[1].valid

begins_with(text, cs) == text # <<>> /\ text[1] \in cs

\* C27: under either method a syllable flagged as having a leading
\* apostrophe or dash was parsed from text without that symbol: neither its
\* initial nor its full_syllable begins with the flagged apostrophe or dash.
C27_FlaggedSymbolStripped ==
  \A k \in DOMAIN syllables :
    /\ syllables[k].has_apostrophe
         => /\ ~begins_with(syllables[k].text, apostrophes)
            /\ ~begins_with(syllables[k].initial, apostrophes)
            /\ ~begins_with(syllables[k].full_syllable, apostrophes)
    /\ syllables[k].has_dash
         => /\ ~begins_with(syllables[k].text, dashes)
            /\ ~begins_with(syllables[k].initial, dashes)
            /\ ~begins_with(syllables[k].full_syllable, dashes)

\* text with every apostrophe variant written as the ASCII apostrophe under
\* Wade-Giles, as it is under Pinyin
apostrophes_as_one(text) ==
  IF call.method = "wg"
  THEN [k \in DOMAIN text |-> IF text[k] \in apostrophes THEN "'" ELSE text[k]]
  ELSE text

\* a sub-run as it is parsed: lower-cased, without the leading dash, or
\* leading apostrophe under Pinyin
stripped_sub_run(sub_run) ==
  IF \/ begins_with(sub_run, dashes)
     \/ (begins_with(sub_run, apostrophes) /\ call.method = "py")
  THEN str_lower(Tail(sub_run)) ELSE str_lower(sub_run)

\* C28: at every parse step the text parsed is the full_syllable followed
\* by the remainder, and the full_syllables of all syllables of a letter-run
\* put together are the characters of its sub-runs (lower-cased, without
\* their leading symbols) in order; under Wade-Giles the apostrophe
\* variants count as one character.
C28_FullSyllablePlusRemainder ==
  /\ \A k \in DOMAIN syllables :
       /\ apostrophes_as_one(syllables[k].text)
            = apostrophes_as_one(syllables[k].full_syllable
                                   \o syllables[k].remainder)
       /\ syllables[k].full_syllable
            = syllables[k].initial \o syllables[k].final
  /\ result.done
       => apostrophes_as_one(Concat(full_syllables(result.value)))
            = apostrophes_as_one(
                Concat([k \in DOMAIN _split_word(call.method, call.segment)
                          |-> stripped_sub_run(
                                _split_word(call.method, call.segment)[k])]))

\* C28 witness: a Wade-Giles run with a typographic apostrophe parsed to
\* its end into several syllables whose spellings, put together, differ
\* from the lower-cased run
C28_Witness ==
  /\ call.method = "wg"
  /\ result.done
  /\ Len(result.value) >= 2
  /\ \E k \in DOMAIN call.segment : call.segment[k] = "rsquo"
  /\ Concat(full_syllables(result.value)) # str_lower(call.segment)
  /\ \E k \in DOMAIN result.value : result.value[k].remainder # <<>>

----------------------------------------------------------------------------
(* Properties of the chunks and of the conversions, checked under Spec.    *)

\* position k of text belongs to a letter-run: a letter, or one apostrophe
\* or dash between two letters
in_letter_run(text, k) ==
  \/ text[k] \in regex_letters
  \/ /\ text[k] \in regex_apostrophes \cup regex_dashes
     /\ 1 < k /\ k < Len(text)
     /\ text[k - 1] \in regex_letters
     /\ text[k + 1] \in regex_letters

\* the maximal letter-runs and the maximal spans between them, from
\* position k on, left to right
RECURSIVE maximal_spans(_, _)
maximal_spans(text, k) ==
  IF k > Len(text) THEN <<>>
  ELSE LET e == greatest({n \in k..Len(text) :
                            \A j \in k..n :
                              in_letter_run(text, j) = in_letter_run(text, k)})
       IN  <<[letter_run |-> in_letter_run(text, k),
              text |-> SubSeq(text, k, e)]>> \o maximal_spans(text, e + 1)

\* the chunk a span of the input is expected to give in the result of
\* segment_text
expected_chunk(span) ==
  IF span.letter_run
  THEN [is_list |-> TRUE,
        syllables |-> full_syllables(
                        _process_split_words(call.method,
                                             _split_word(call.method,
                                                         span.text))),
        text |-> <<>>]
  ELSE [is_list |-> FALSE, syllables |-> <<>>, text |-> span.text]

expected_chunks ==
  LET spans == maximal_spans(normalize_NFC(call.text), 1)
      kept == IF working_config.error_skip THEN spans
              ELSE SelectSeq(spans, LAMBDA span : span.letter_run)
  IN  [k \in DOMAIN kept |-> expected_chunk(kept[k])]

\* C24: with error_skip set the chunks are, left to right, one literal
\* chunk with the exact text of every maximal span outside the letter-runs
\* of the NFC-normalized input and one word chunk with all the syllables of
\* every letter-run; with error_skip unset they are the same word chunks
\* alone.
C24_ChunksPartitionInput ==
  (call.op = "segment_text" /\ result.done) =>
    /\ result.raised = ""
    /\ result.value = expected_chunks

\* C24 witness: a text with two words, a span between them and a span at
\* its end, segmented with error_skip set
C24_Witness ==
  /\ call.op = "segment_text"
  /\ result.done
  /\ working_config.error_skip
  /\ Len(result.value) >= 4
  /\ result.value[1].is_list
  /\ ~result.value[2].is_list
  /\ result.value[3].is_list
  /\ ~result.value[4].is_list
  /\ \E k \in DOMAIN call.text : call.text[k] \in regex_apostrophes

\* text without its apostrophes and dashes, lower-cased
letters_lowered(text) ==
  str_lower(SelectSeq(text, LAMBDA c :
                        c \notin regex_apostrophes \cup regex_dashes))

\* the output of a conversion in which the words that fail the
\* convertibility test are spelled as their syllables are, the other words
\* as the word processor gives them
output_with_unconverted_words ==
  joined_chunks(
    [k \in DOMAIN call_chunks |->
       IF ~call_chunks[k].is_list THEN call_chunks[k].text
       ELSE IF is_convertable(call_chunks[k].syllables, call_word_processor)
            THEN process_syllables(call_chunks[k].syllables,
                                   call_word_processor)
            ELSE Concat(full_syllables(call_chunks[k].syllables))])

conversion_returned ==
  /\ call.op \in {"convert_text", "cherry_pick"}
  /\ result.done
  /\ result.raised = ""

\* C25 as stated: under every configuration, in convert_text and in
\* cherry_pick, a word that fails the convertibility test is output with
\* the spellings of its syllables, letter case and separating symbols set
\* aside: no syllable of it went through the converter and no error marker
\* is appended.
C25_UnconvertibleWordNeverConverted ==
  conversion_returned =>
    letters_lowered(result.value)
      = letters_lowered(output_with_unconverted_words)

\* C25 amended: the same with error_skip set.
C25_UnconvertibleWordNotConvertedWhenSkipping ==
  (conversion_returned /\ working_config.error_skip) =>
    letters_lowered(result.value)
      = letters_lowered(output_with_unconverted_words)

\* C25 witness: with error_skip set, a word that fails the test although
\* its first syllable has a different spelling in the target method
C25_Witness ==
  /\ conversion_returned
  /\ working_config.error_skip
  /\ call.convert_from # call.convert_to
  /\ \E k \in DOMAIN call_words :
       /\ ~is_convertable(call_words[k].syllables, call_word_processor)
       /\ call_words[k].syllables[1].valid
       /\ converter_convert(call.convert_from, call.convert_to,
                            call_words[k].syllables[1].full_syllable)
            # call_words[k].syllables[1].full_syllable
       /\ ~all_valid(call_words[k].syllables)

\* the apostrophes and dashes of text, in order
symbols_of(text) ==
  SelectSeq(text, LAMBDA c : c \in regex_apostrophes \cup regex_dashes)

\* the segments of the call's text the chunks were made of
call_segments ==
  _split_text_into_segments(call.text, working_config.error_skip)

\* the output of a conversion in which the words that fail the
\* convertibility test stand as they are in the input
output_with_input_words ==
  joined_chunks(
    [k \in DOMAIN call_chunks |->
       IF /\ call_chunks[k].is_list
          /\ is_convertable(call_chunks[k].syllables, call_word_processor)
       THEN process_syllables(call_chunks[k].syllables, call_word_processor)
       ELSE call_segments[k]])

\* C26: in the output of a conversion the apostrophes and dashes of the
\* words that fail the convertibility test are those of the input, each
\* the very character of the input, once, in front of its syllable.
C26_SymbolsReemittedVerbatim ==
  conversion_returned =>
    symbols_of(result.value) = symbols_of(output_with_input_words)

\* C29: under every configuration convert_text returns the converted
\* words of the text with exactly one space between neighbours and nothing
\* else.
C29_WordsJoinedByOneSpace ==
  (call.op = "convert_text" /\ result.done /\ result.raised = "") =>
    result.value
      = str_join(<<" ">>,
                 [k \in DOMAIN call_words |->
                    process_syllables(call_words[k].syllables,
                                      call_word_processor)])

----------------------------------------------------------------------------
(* Properties of the converter and of the caches, checked under SpecCache. *)

converter_call == result.done /\ call.op = "RomanizationConverter"

\* the rows of the table whose source column is the text, letter case set
\* aside
matching_rows ==
  {k \in DOMAIN conversion_mapping :
     str_lower(column(conversion_mapping[k], call.convert_from))
       = str_lower(result.text)}

first_matching_row ==
  conversion_mapping[CHOOSE k \in matching_rows :
                       \A o \in matching_rows : k <= o]

rare_without_target ==
  /\ matching_rows # {}
  /\ column(first_matching_row, call.convert_to) = <<>>
  /\ first_matching_row.meta = "rare"

\* C18: the lookup of one syllable returns the text followed by "(!)" when
\* no row matches the lower-cased text, the text followed by
\* "(!rare Pinyin!)" when the first matching row is rare and has no target
\* spelling, the target spelling of the first matching row otherwise; it
\* never returns the empty string for a miss or a rare entry.
C18_LookupNeverEmptyOnMissOrRare ==
  converter_call =>
    /\ result.raised = ""
    /\ matching_rows = {} =>
         result.value = result.text \o <<"(", "!", ")">>
    /\ rare_without_target =>
         result.value
           = result.text \o <<"(", "!", "r", "a", "r", "e", " ", "P", "i",
                               "n", "y", "i", "n", "!", ")">>
    /\ (matching_rows # {} /\ ~rare_without_target) =>
         result.value = column(first_matching_row, call.convert_to)
    /\ (matching_rows = {} \/ rare_without_target) => result.value # <<>>

\* a rare row without target met through a text in another letter case
C18_Witness ==
  /\ converter_call
  /\ rare_without_target
  /\ result.text # str_lower(result.text)
  /\ ~result.hit

\* what the wrapped function returns for the arguments of the last call
uncached_result ==
  IF call.op = "RomanizationConverter"
  THEN _cached_convert(call.convert_from, call.convert_to, result.text)
  ELSE create_syllable(call.instances[result.self], result.text)

\* every entry of the two caches holds what the wrapped function returns
\* for the arguments of its key (for the chunkers' cache, the chunker the
\* key names and the text)
entries_hold_results ==
  /\ \A k \in DOMAIN cache.converter.entries :
        cache.converter.entries[k].value
          = _cached_convert(call.convert_from, call.convert_to,
                            cache.converter.entries[k].key[2])
  /\ \A k \in DOMAIN cache.chunker.entries :
        LET key == cache.chunker.entries[k].key
        IN  /\ key[1] \in DOMAIN call.instances
            /\ cache.chunker.entries[k].value
                  = create_syllable(call.instances[key[1]], key[2])

----------------------------------------------------------------------------
(* Properties of a session, checked under SpecSession.                     *)

\* what the last call of the session returns when it is the first call
\* made, with a fresh Config that holds the flags the object had
first_call_result ==
  LET a == result.arguments IN
  IF a.op = "segment_text"
  THEN segment_text(a.text, a.method, a.config, a.kwargs)
  ELSE IF a.op = "validator"
  THEN validator(a.text, a.method, a.per_word, a.config, a.kwargs)
  ELSE IF a.op = "syllable_count"
  THEN syllable_count(a.text, a.method, a.config, a.kwargs)
  ELSE IF a.op = "detect_method"
  THEN detect_method(a.text, a.config, a.kwargs)
  ELSE IF a.op = "convert_text"
  THEN convert_text(a.text, a.convert_from, a.convert_to, a.config, a.kwargs)
  ELSE cherry_pick(a.text, a.convert_from, a.convert_to, a.config, a.kwargs)

\* C30: whatever calls were made before and whatever flags the Config
\* object had then, a call returns what a first call with a fresh Config of
\* the same flags returns.
C30_ResultDependsOnCurrentFlags ==
  result.done => result.value = first_call_result.value

====
